---- MODULE Spec2Model ----
(***************************************************************************)
(* Hivemind: the multi-round deliberation tool of the MCP server           *)
(* (packages/mcp/src/tools/hivemind.ts) with its retry driver, the error   *)
(* categorisation of packages/core (providers/base.ts) and the analysis    *)
(* parser of packages/core (consensus.ts).                                 *)
(*                                                                         *)
(* One behaviour is one call of hivemindTool.  Every step between two      *)
(* awaits of the JavaScript code is one action; the provider calls of a    *)
(* round run concurrently, so their completions interleave freely.         *)
(***************************************************************************)
EXTENDS Integers, Sequences, FiniteSets, TLC

\* ------------------------------------------------------------------ bounds
\* Largest maxRounds a caller passes explicitly (it may also omit it).
MaxRoundsArg == 2
\* Failing steps (rejected chat attempts, throwing trackUsage) per ask.
MaxFaults == 3
\* How many of the error messages of ErrorMessages the providers raise.
NumMessages == 2
\* Longest error message, in words, handed to categorizeError on its own.
MaxWords == 2
\* Longest queries array a caller passes to the one-round tool.
MaxQueries == 2
\* Longest judge answer, in pieces of text, handed to parseAnalysis whole.
MaxAtoms == 4

\* ------------------------------------------------------- program constants
MAX_RETRIES == 3
BASE_DELAY_MS == 1000
DEFAULT_MAX_ROUNDS == 3

ProviderOrder == <<"openai", "google", "anthropic">>
Providers == {"openai", "google", "anthropic"}

DEFAULT_MODELS == [p \in Providers |->
    CASE p = "openai" -> "gpt-4.1"
      [] p = "anthropic" -> "claude-opus-4-5-20251124"
      [] p = "google" -> "gemini-2.5-pro"]

\* ------------------------------------------------------------ small helpers
Range(s) == {s[i] : i \in 1..Len(s)}

Last(s) == s[Len(s)]

RECURSIVE SelectSeqBy(_, _)
\* s.filter(x => x \in keep), order preserved
SelectSeqBy(s, keep) ==
    IF s = <<>> THEN <<>>
    ELSE IF Head(s) \in keep
         THEN <<Head(s)>> \o SelectSeqBy(Tail(s), keep)
         ELSE SelectSeqBy(Tail(s), keep)

RECURSIVE Pow2(_)
Pow2(n) == IF n <= 0 THEN 1 ELSE 2 * Pow2(n - 1)

\* --------------------------------------------------------- categorizeError
\* An Error message is modelled by its lower-cased words.
ErrorMessages == <<
    <<"429", "rate", "limit">>,
    <<"401", "unauthorized">>,
    <<"500", "server", "error">>,
    <<"fetch", "failed">>,
    <<"400", "bad", "request">>,
    <<"something", "odd">>,
    <<"403", "forbidden">>,
    <<"request", "timeout">> >>

Messages == {ErrorMessages[i] : i \in 1..NumMessages}

\* The message fs raises when the monthly usage file cannot be written.
UsageWriteError == <<"eacces", "permission", "denied">>

\* A word is a run of fragments written without a separator: most words
\* are one fragment, "enotfound" reads e + not + found and "ratelimit"
\* rate + limit.
Parts(w) ==
    CASE w = "enotfound" -> <<"e", "not", "found">>
      [] w = "ratelimit" -> <<"rate", "limit">>
      [] OTHER -> <<w>>

RECURSIVE Atoms(_)
\* the text of a message: the fragments of its words, one blank between
\* two words
Atoms(m) ==
    IF m = <<>> THEN <<>>
    ELSE IF Len(m) = 1 THEN Parts(m[1])
    ELSE Parts(m[1]) \o <<" ">> \o Atoms(Tail(m))

\* the fragments of run appear in a, one after the other
HasRun(a, run) ==
    \E i \in 1..(Len(a) - Len(run) + 1) :
        \A k \in 1..Len(run) : a[i + k - 1] = run[k]

\* /\bw\b/ : w is a whole word of the message
HasWord(m, w) == \E i \in 1..Len(m) : m[i] = w

\* /x/ : x appears anywhere in the text, also inside a word
HasSub(m, x) == HasRun(Atoms(m), <<x>>)

\* /a.?b/ : a then b, with at most one character between them
HasPair(m, a, b) ==
    HasRun(Atoms(m), <<a, b>>) \/ HasRun(Atoms(m), <<a, " ", b>>)

\* a classifier that retries whatever it does not recognise
categorizeError_RetriesUnknown(m) ==
    IF HasWord(m, "401") \/ HasSub(m, "unauthorized")
       \/ HasWord(m, "403") \/ HasSub(m, "forbidden")
      THEN [category |-> "auth", retryable |-> FALSE]
    ELSE IF HasWord(m, "429") \/ HasPair(m, "rate", "limit")
      THEN [category |-> "rate_limit", retryable |-> TRUE]
    ELSE [category |-> "unknown", retryable |-> TRUE]

categorizeError(m) ==
    IF HasWord(m, "401") \/ HasSub(m, "unauthorized")
      THEN [category |-> "auth", retryable |-> FALSE]
    ELSE IF HasWord(m, "403") \/ HasSub(m, "forbidden")
      THEN [category |-> "auth", retryable |-> FALSE]
    ELSE IF HasWord(m, "429") \/ HasPair(m, "rate", "limit")
            \/ HasRun(Atoms(m), <<"too", " ", "many", " ", "requests">>)
      THEN [category |-> "rate_limit", retryable |-> TRUE]
    ELSE IF (\E c \in {"500", "502", "503", "504"} : HasWord(m, c))
            \/ HasPair(m, "internal", "server")
            \/ HasPair(m, "service", "unavailable")
      THEN [category |-> "server", retryable |-> TRUE]
    ELSE IF HasWord(m, "400") \/ HasPair(m, "bad", "request")
      THEN [category |-> "client", retryable |-> FALSE]
    ELSE IF HasWord(m, "404") \/ HasPair(m, "not", "found")
      THEN [category |-> "client", retryable |-> FALSE]
    ELSE IF (\E w \in {"econnrefused", "econnreset", "etimedout",
                        "enetunreach"} : HasSub(m, w))
            \/ HasRun(Atoms(m), <<"e", "not", "found">>)
      THEN [category |-> "network", retryable |-> TRUE]
    ELSE IF \E w \in {"timeout", "aborted", "network"} : HasSub(m, w)
      THEN [category |-> "network", retryable |-> TRUE]
    ELSE IF HasRun(Atoms(m), <<"fetch", " ", "failed">>)
      THEN [category |-> "network", retryable |-> TRUE]
    ELSE [category |-> "unknown", retryable |-> FALSE]

\* ------------------------------------------------------------ parseAnalysis
\* What a chat call of the judge can answer.  kind "text": no {...} in the
\* answer; "badjson": a {...} substring that JSON.parse rejects; "json": a
\* JSON object, every field a tagged JSON value.  Numbers are in hundredths
\* (confidence 0.9 is 90).
JBool(b) == [t |-> "bool", b |-> b]
JNum(n) == [t |-> "number", n |-> n]
JArr(a) == [t |-> "array", a |-> a]
JStr(x) == [t |-> "string", s |-> x]
JAbsent == [t |-> "undefined"]

JudgeOutputs == <<
    [kind |-> "json", hasConsensus |-> JBool(TRUE), agreements |-> JArr(<<"a1">>),
     divergences |-> JArr(<<>>), confidence |-> JNum(90)],
    [kind |-> "json", hasConsensus |-> JBool(FALSE), agreements |-> JArr(<<>>),
     divergences |-> JArr(<<"d1">>), confidence |-> JNum(50)],
    [kind |-> "text"],
    [kind |-> "json", hasConsensus |-> JBool(FALSE), agreements |-> JArr(<<"a1">>),
     divergences |-> JArr(<<"d1">>), confidence |-> JNum(90)],
    [kind |-> "json", hasConsensus |-> JAbsent, agreements |-> JAbsent,
     divergences |-> JAbsent, confidence |-> JAbsent],
    [kind |-> "json", hasConsensus |-> JBool(TRUE), agreements |-> JArr(<<"a1">>),
     divergences |-> JArr(<<"d1">>), confidence |-> JNum(50)] >>

\* Boolean(x) of JavaScript
Truthy(v) ==
    CASE v.t = "bool" -> v.b
      [] v.t = "number" -> v.n # 0
      [] v.t = "string" -> v.s # ""
      [] v.t = "array" -> TRUE
      [] OTHER -> FALSE

ParseFailure ==
    [hasConsensus |-> FALSE, agreements |-> <<>>,
     divergences |-> <<"Unable to parse analysis">>, confidence |-> 0]

parseAnalysis(response) ==
    IF response.kind = "json"
    THEN [hasConsensus |-> Truthy(response.hasConsensus),
          agreements |-> IF response.agreements.t = "array"
                         THEN response.agreements.a ELSE <<>>,
          divergences |-> IF response.divergences.t = "array"
                          THEN response.divergences.a ELSE <<>>,
          confidence |-> IF response.confidence.t = "number"
                         THEN response.confidence.n ELSE 50]
    ELSE ParseFailure

\* The text of an answer, piece by piece: "{" and "}" are the two braces,
\* "w" is text without a brace, "v1" and "v2" are the text between the
\* braces of two verdict objects (no brace in it).
RawAtoms == {"{", "}", "w", "v1", "v2"}

Positions(response, atom) == {i \in 1..Len(response) : response[i] = atom}

Min(S) == CHOOSE x \in S : \A y \in S : x <= y

Max(S) == CHOOSE x \in S : \A y \in S : x >= y

\* response.match(/\{[\s\S]*\}/): the quantifier is greedy, the match runs
\* from the first "{" to the last "}" after it; <<>> when there is none
jsonMatch(response) ==
    LET opens == Positions(response, "{")
        closes == {j \in Positions(response, "}") : opens # {} /\ j > Min(opens)}
    IN  IF closes = {} THEN <<>>
        ELSE <<SubSeq(response, Min(opens), Max(closes))>>

\* JSON.parse(jsonMatch[0]): the object, or kind "badjson" when it throws
JSONparseObject(text) ==
    CASE text = <<"{", "v1", "}">> -> JudgeOutputs[1]
      [] text = <<"{", "v2", "}">> -> JudgeOutputs[2]
      [] text = <<"{", "}">> -> JudgeOutputs[5]
      [] OTHER -> [kind |-> "badjson"]

\* parseAnalysis on the text of the answer
parseAnalysisText(response) ==
    IF jsonMatch(response) = <<>>
    THEN parseAnalysis([kind |-> "text"])
    ELSE parseAnalysis(JSONparseObject(jsonMatch(response)[1]))

\* -------------------------------------------------------- retryWithBackoff
\* One call of retryWithBackoff(fn, providerName).
\*   st        "none" | "pending" (fn() awaited) | "backoff" (setTimeout
\*             awaited) | "fulfilled" | "rejected"
\*   attempt   the loop variable
\*   calls     how many times fn was invoked
\*   delays    the delays waited so far, in ms
\*   log       the messages of the failed attempts, oldest first
\*   okAt      the attempt whose fn() resolved, 0 while none did
\*   lastError the variable lastError (<<>> while undefined)
\*   reason    the rejection reason of the enclosing promise
\*   by        who threw it: "retry" (retryWithBackoff) or "usage" (trackUsage)
NoCall ==
    [st |-> "none", attempt |-> 0, calls |-> 0, delays |-> <<>>, log |-> <<>>,
     okAt |-> 0, lastError |-> <<>>, reason |-> <<>>, by |-> "none"]

\* entry of retryWithBackoff: attempt = 1 and fn() is invoked
NewCall == [NoCall EXCEPT !.st = "pending", !.attempt = 1, !.calls = 1]

\* a retry driver that retries whatever the category
GivesUp_IgnoresCategory(attempt, retryable) == attempt = MAX_RETRIES

\* the condition of the if in the catch block
GivesUp(attempt, retryable) == attempt = MAX_RETRIES \/ ~retryable

\* the catch block: fn() rejected with an Error of message m
OnChatRejected(c, m) ==
    LET c1 == [c EXCEPT !.lastError = m, !.log = Append(@, m)]
        cat == categorizeError(c1.lastError)
    IN  IF GivesUp(c.attempt, cat.retryable)
        THEN [c1 EXCEPT !.st = "rejected", !.reason = c1.lastError, !.by = "retry"]
        ELSE [c1 EXCEPT !.st = "backoff",
                        !.delays = Append(@, BASE_DELAY_MS * Pow2(c.attempt - 1))]

\* a backoff whose promise is never resolved
OnBackoffElapsed_NeverResolves(c) == c

\* the timer of the backoff fired: attempt++ and fn() is invoked again
OnBackoffElapsed(c) ==
    IF c.attempt + 1 <= MAX_RETRIES
    THEN [c EXCEPT !.st = "pending", !.attempt = @ + 1, !.calls = @ + 1]
    ELSE [c EXCEPT !.st = "rejected", !.attempt = @ + 1,
                   !.reason = c.lastError, !.by = "retry"]

\* a retry driver that awaits fn() without returning its value
OnChatResolved_NoReturn(c, usageOk) ==
    [c EXCEPT !.okAt = c.attempt, !.attempt = @ + 1, !.calls = @ + 1]

\* fn() resolved: retryWithBackoff returns, then trackUsage runs in the caller
OnChatResolved(c, usageOk) ==
    IF usageOk
    THEN [c EXCEPT !.st = "fulfilled", !.okAt = c.attempt]
    ELSE [c EXCEPT !.st = "rejected", !.okAt = c.attempt,
                   !.reason = UsageWriteError, !.by = "usage"]

Settled(c) == c.st \in {"fulfilled", "rejected"}

\* ------------------------------------------------------------ hivemindTool
VARIABLES
    variant,            \* which ask runs: "mcp" (hivemindTool) or "web"
                        \* (sendHivemindMessage of the web app)
    apiKeys,            \* config.apiKeys: the providers that have a key
    claudeCodeMode,     \* settings.claudeCodeMode
    maxRoundsArg,       \* params.maxRounds: <<n>>, or <<>> when omitted
    pc,                 \* "idle" | "initial" | "analysis" | "refinement"
                        \* | "synthesis" | "done" | "error"
    providers,          \* the providers array (names, in creation order)
    round,
    currentResponses,   \* ModelResponse[]
    allResponses,
    errors,             \* {provider, message, category}[]
    analysis,           \* ConsensusAnalysis
    analyzerProvider,   \* name of the judge, "none" before it is chosen
    fcall,              \* the calls of the current Promise.allSettled
    jcall,              \* the awaited call of the judge
    outcome,            \* what the call returned or threw
    sent,               \* prompts handed to retryWithBackoff, by kind
    prompts,            \* the refinement prompt built for each provider
                        \* re-queried in the current round
    analysisPrompt,     \* the responses quoted in the latest analysis prompt
    faults,             \* failing steps so far
    applied,            \* a library function called on its own: its name
                        \* and its argument
    returned,           \* what that call returned
    completed,          \* the calls of the current round that settled, in
                        \* the order in which they settled
    sessionStats,       \* usage.ts: sessionStats.providers
    usageFile,          \* the monthly totals kept in USAGE_FILE
    storage,            \* the SecureStorage object of the web app
    localStorage,       \* window.localStorage: the three items of the app
    now,                \* Date.now(), in minutes
    store,              \* the state of useConversationStore
    awaiting            \* the calls of the web app suspended at an await

vars == <<variant, apiKeys, claudeCodeMode, maxRoundsArg, pc, providers, round,
          currentResponses, allResponses, errors, analysis, analyzerProvider,
          fcall, jcall, outcome, sent, prompts, analysisPrompt, faults, applied,
          returned,
          completed, sessionStats, usageFile, storage, localStorage, now, store,
          awaiting>>

\* const { maxRounds = 3 } = params
maxRounds == IF maxRoundsArg = <<>> THEN DEFAULT_MAX_ROUNDS ELSE maxRoundsArg[1]

hasRequiredKeys == apiKeys # {}

\* a provider for every configured key, whatever the mode
BuildProviders_KeysOnly == SelectSeqBy(ProviderOrder, apiKeys)

\* the three ifs that push onto providers
BuildProviders ==
    SelectSeqBy(ProviderOrder,
        {p \in Providers :
            p \in apiKeys /\ (p = "anthropic" => ~claudeCodeMode)})

InitialAnalysis ==
    [hasConsensus |-> FALSE, agreements |-> <<>>, divergences |-> <<>>,
     confidence |-> 0]

\* The text a chat call answers is opaque: it is named by who wrote it,
\* for which kind of prompt and in which round.
Content(p, kind, r) == [by |-> p, kind |-> kind, round |-> r]

ModelResponse(p, r) ==
    [model |-> DEFAULT_MODELS[p], provider |-> p, content |-> Content(p, "answer", r)]

ResponseProviders(responses) == {responses[i].provider : i \in 1..Len(responses)}

\* ---- the prompts of consensus.ts
\* a formatter that keeps every response
formatResponsesForPrompt_NoFilter(responses, excludeModel) ==
    [i \in 1..Len(responses) |->
        [label |-> responses[i].model, content |-> responses[i].content]]

\* responses.filter(r => r.model !== excludeModel).map(`[model]: content`);
\* the joined text is kept as the sequence of its labelled paragraphs
\* (excludeModel is "undefined" when the argument is omitted)
formatResponsesForPrompt(responses, excludeModel) ==
    LET keep == SelectSeq(responses, LAMBDA r : r.model # excludeModel)
    IN  [i \in 1..Len(keep) |->
            [label |-> keep[i].model, content |-> keep[i].content]]

\* the three placeholders of REFINEMENT_PROMPT that depend on the round
buildRefinementPrompt(previousAnswer, responses, divergences, currentModel) ==
    [previousAnswer |-> previousAnswer,
     otherAnswers |-> formatResponsesForPrompt(responses, currentModel),
     divergences |-> divergences]

\* an analysis prompt that quotes the first response only
buildAnalysisPrompt_FirstOnly(responses) ==
    formatResponsesForPrompt(SubSeq(responses, 1, 1), "undefined")

\* the placeholder {responses} of ANALYSIS_PROMPT
buildAnalysisPrompt(responses) == formatResponsesForPrompt(responses, "undefined")

NoPrompt == [previousAnswer |-> "none", otherAnswers |-> <<>>, divergences |-> <<>>]

NoPrompts == [p \in Providers |-> NoPrompt]

\* currentResponses.find(r => r.provider === name)?.content || ''
PreviousAnswer(responses, name) ==
    LET mine == SelectSeq(responses, LAMBDA r : r.provider = name)
    IN  IF mine = <<>> THEN "" ELSE mine[1].content

\* the refinement prompts of one round of hivemindTool: one for every
\* provider that has a current response, excluding its own model
RefinementPrompts(curr, an) ==
    [p \in Providers |->
        IF p \in ResponseProviders(curr)
        THEN buildRefinementPrompt(PreviousAnswer(curr, p), curr,
                                   an.divergences, DEFAULT_MODELS[p])
        ELSE NoPrompt]

\* no library function is called on its own during an ask
NotApplied == [fn |-> "none"]

NotReturned == [fn |-> "none"]

\* usage.ts: the request counter of every provider
createEmptyProvidersRecord == [p \in Providers |-> [requests |-> 0]]

\* a tracker that records nothing
trackUsage_Noop(stats, provider) == stats

\* trackUsage, the session part: it precedes the write of the monthly file
trackUsage(stats, provider) ==
    [stats EXCEPT ![provider].requests = @ + 1]

\* trackUsage, the monthly part: loadMonthlyStats, the increment and
\* saveMonthlyStats.  When the write fails (usageOk false) saveMonthlyStats
\* throws and the file keeps its content.
trackMonthlyUsage(file, provider, usageOk) ==
    IF usageOk THEN [file EXCEPT ![provider].requests = @ + 1] ELSE file

\* the call who settled with c: the order in which the promises of the
\* round settle
Completed(who, c) == IF Settled(c) THEN Append(completed, who) ELSE completed

\* ---- the web app before it is used
NoPassword == <<>>

NoItem == <<>>

NewSecureStorage ==
    [password |-> NoPassword, sessionExpiry |-> 0, expiryTimer |-> <<>>]

EmptyLocalStorage ==
    [hivemind_api_keys |-> NoItem, hivemind_password_hash |-> NoItem,
     hivemind_conversations |-> NoItem]

EmptyStore ==
    [conversations |-> <<>>, activeConversationId |-> <<>>, isLoading |-> FALSE]

\* no part of the web app runs during an ask of the tool
NoBrowser ==
    /\ storage = NewSecureStorage
    /\ localStorage = EmptyLocalStorage
    /\ now = 0
    /\ store = EmptyStore
    /\ awaiting = <<>>

\* the locals of an ask before its first statement
Fresh ==
    /\ pc = "idle"
    /\ providers = <<>>
    /\ round = 0
    /\ currentResponses = <<>>
    /\ allResponses = <<>>
    /\ errors = <<>>
    /\ analysis = InitialAnalysis
    /\ analyzerProvider = "none"
    /\ fcall = [p \in Providers |-> NoCall]
    /\ jcall = NoCall
    /\ outcome = [type |-> "none"]
    /\ sent = [k \in {"initial", "analysis", "refinement", "synthesis"} |-> 0]
    /\ prompts = NoPrompts
    /\ faults = 0
    /\ completed = <<>>
    /\ sessionStats = createEmptyProvidersRecord
    /\ usageFile = createEmptyProvidersRecord
    /\ analysisPrompt = <<>>

Init ==
    /\ variant = "mcp"
    /\ applied = NotApplied
    /\ returned = NotReturned
    /\ NoBrowser
    /\ apiKeys \in SUBSET Providers
    /\ claudeCodeMode \in BOOLEAN
    /\ maxRoundsArg \in {<<>>} \cup {<<n>> : n \in 0..MaxRoundsArg}
    /\ Fresh

\* providers.map(async ...) : one retryWithBackoff per provider of names
FanOut(names) == [p \in Providers |-> IF p \in names THEN NewCall ELSE NoCall]

\* hivemindTool up to the first await (Promise.allSettled of round 1)
Start ==
    /\ variant = "mcp"
    /\ pc = "idle"
    /\ IF ~hasRequiredKeys
       THEN /\ pc' = "error"
            /\ outcome' = [type |-> "error", name |-> "No API keys configured"]
            /\ UNCHANGED <<providers, round, fcall, sent>>
       ELSE IF BuildProviders = <<>>
       THEN /\ pc' = "error"
            /\ outcome' = [type |-> "error", name |-> "No providers available"]
            /\ providers' = BuildProviders
            /\ UNCHANGED <<round, fcall, sent>>
       ELSE /\ providers' = BuildProviders
            /\ round' = 1
            /\ fcall' = FanOut(Range(BuildProviders))
            /\ sent' = [sent EXCEPT !.initial = @ + Len(BuildProviders)]
            /\ pc' = "initial"
            /\ UNCHANGED outcome
    /\ UNCHANGED <<variant, storage, localStorage, now, store, awaiting,
                   completed, sessionStats, usageFile, applied, returned, prompts, analysisPrompt, apiKeys, claudeCodeMode, maxRoundsArg, currentResponses,
                   allResponses, errors, analysis, analyzerProvider, jcall, faults>>

\* ---- the concurrent provider calls of a round
ChatRejects(p, m) ==
    /\ variant = "mcp"
    /\ pc \in {"initial", "refinement"}
    /\ fcall[p].st = "pending"
    /\ faults < MaxFaults
    /\ fcall' = [fcall EXCEPT ![p] = OnChatRejected(@, m)]
    /\ faults' = faults + 1
    /\ completed' = Completed(p, fcall'[p])
    /\ UNCHANGED <<variant, storage, localStorage, now, store, awaiting,
                   sessionStats, usageFile, applied, returned, prompts, analysisPrompt, apiKeys, claudeCodeMode, maxRoundsArg, pc, providers, round,
                   currentResponses, allResponses, errors, analysis,
                   analyzerProvider, jcall, outcome, sent>>

BackoffElapsed(p) ==
    /\ variant = "mcp"
    /\ pc \in {"initial", "refinement"}
    /\ fcall[p].st = "backoff"
    /\ fcall' = [fcall EXCEPT ![p] = OnBackoffElapsed(@)]
    /\ completed' = Completed(p, fcall'[p])
    /\ UNCHANGED <<variant, storage, localStorage, now, store, awaiting,
                   sessionStats, usageFile, applied, returned, prompts, analysisPrompt, apiKeys, claudeCodeMode, maxRoundsArg, pc, providers, round,
                   currentResponses, allResponses, errors, analysis,
                   analyzerProvider, jcall, outcome, sent, faults>>

ChatResolves(p, usageOk) ==
    /\ variant = "mcp"
    /\ pc \in {"initial", "refinement"}
    /\ fcall[p].st = "pending"
    /\ usageOk \/ faults < MaxFaults
    /\ fcall' = [fcall EXCEPT ![p] = OnChatResolved(@, usageOk)]
    /\ completed' = Completed(p, fcall'[p])
    /\ sessionStats' = trackUsage(sessionStats, p)
    /\ usageFile' = trackMonthlyUsage(usageFile, p, usageOk)
    /\ faults' = IF usageOk THEN faults ELSE faults + 1
    /\ UNCHANGED <<variant, storage, localStorage, now, store, awaiting,
                   applied, returned, prompts, analysisPrompt, apiKeys, claudeCodeMode, maxRoundsArg, pc, providers, round,
                   currentResponses, allResponses, errors, analysis,
                   analyzerProvider, jcall, outcome, sent>>

\* ---- the joins and the sequential part
\* a join that resumes with the first call that settles
AllSettled_Any == \E p \in Providers : Settled(fcall[p])

\* Promise.allSettled resolves once every promise has settled
AllSettled == \A p \in Providers : fcall[p].st # "none" => Settled(fcall[p])

\* a join that lists the results in the order in which the calls settled
SettledOrder_Completion == completed

\* the array Promise.allSettled resolves with lists the results in the
\* order of its input, the providers array
SettledOrder == providers

Fulfilled == {p \in Providers : fcall[p].st = "fulfilled"}

Rejected == {p \in Providers : fcall[p].st = "rejected"}

\* a collector that replaces the rejection by a generic error
ErrorRecord_Wrapped(p) ==
    [provider |-> p, message |-> <<"unknown", "error">>, category |-> "unknown"]

\* the entry pushed onto errors for a rejected round-1 call
ErrorRecord(p) ==
    [provider |-> p, message |-> fcall[p].reason,
     category |-> categorizeError(fcall[p].reason).category]

\* the line of errorList for one entry of errors
ErrorLine(e) == [provider |-> e.provider, message |-> e.message]

AllProvidersFailed(errs) ==
    [type |-> "error", name |-> "All providers failed",
     errorList |-> [i \in 1..Len(errs) |-> ErrorLine(errs[i])]]

\* a judge chosen from the end of the providers array
FindAnalyzer_Last(provs, responses) ==
    LET found == {i \in 1..Len(provs) : provs[i] \in ResponseProviders(responses)}
    IN  IF found = {} THEN "undefined"
        ELSE provs[CHOOSE i \in found : \A j \in found : i >= j]

\* providers.find(p => currentResponses.some(r => r.provider === p.name))
\* ("undefined" when there is none)
FindAnalyzer(provs, responses) ==
    LET found == {i \in 1..Len(provs) : provs[i] \in ResponseProviders(responses)}
    IN  IF found = {} THEN "undefined"
        ELSE provs[CHOOSE i \in found : \A j \in found : i <= j]

\* an orchestrator without the check for an empty round 1
NoneSucceeded_Never(responses) == FALSE

\* if (currentResponses.length === 0)
NoneSucceeded(responses) == Len(responses) = 0

\* reading .name of an undefined analyzerProvider
UndefinedAnalyzer == <<"cannot", "read", "properties", "of", "undefined">>

\* a loop that goes on whatever the judge concluded
NeedsRefinement_IgnoresConsensus(an, r) ==
    r < maxRounds /\ Len(an.divergences) > 0

\* a loop that stops one round early
NeedsRefinement_OffByOne(an, r) ==
    ~an.hasConsensus /\ r < maxRounds - 1 /\ Len(an.divergences) > 0

\* the condition of the while loop
NeedsRefinement(an, r) ==
    ~an.hasConsensus /\ r < maxRounds /\ Len(an.divergences) > 0

\* The head of the while loop with analysis an and currentResponses curr:
\* either the next refinement round is fanned out, or the loop is left and
\* the synthesis prompt is sent.
Continue(an, curr) ==
    IF NeedsRefinement(an, round)
    THEN /\ round' = round + 1
         /\ fcall' = FanOut(ResponseProviders(curr))
         /\ jcall' = NoCall
         /\ sent' = [sent EXCEPT
                !.refinement = @ + Cardinality(ResponseProviders(curr))]
         /\ prompts' = RefinementPrompts(curr, an)
         /\ completed' = <<>>
         /\ pc' = "refinement"
    ELSE /\ round' = round
         /\ fcall' = FanOut({})
         /\ jcall' = NewCall
         /\ sent' = [sent EXCEPT !.synthesis = @ + 1]
         /\ prompts' = NoPrompts
         /\ completed' = <<>>
         /\ pc' = "synthesis"

\* an await (or a statement) of hivemindTool throws: the call rejects with
\* that error
Rethrown(m) == [type |-> "error", name |-> "rethrown", message |-> m]

\* Promise.allSettled of round 1 resolved: lines 170-206
JoinInitial ==
    /\ variant = "mcp"
    /\ pc = "initial"
    /\ AllSettled
    /\ LET ok == SelectSeqBy(SettledOrder, Fulfilled)
           resp == [i \in 1..Len(ok) |-> ModelResponse(ok[i], 1)]
           failed == SelectSeqBy(SettledOrder, Rejected)
           errs == [i \in 1..Len(failed) |-> ErrorRecord(failed[i])]
       IN  /\ currentResponses' = resp
           /\ allResponses' = [i \in 1..Len(ok) |->
                  [provider |-> resp[i].provider, model |-> resp[i].model,
                   content |-> resp[i].content, round |-> 1]]
           /\ errors' = errs
           /\ fcall' = FanOut({})
           /\ IF NoneSucceeded(resp)
              THEN /\ pc' = "error"
                   /\ outcome' = AllProvidersFailed(errs)
                   /\ UNCHANGED <<analyzerProvider, jcall, sent, analysisPrompt>>
              ELSE IF FindAnalyzer(providers, resp) = "undefined"
              THEN /\ pc' = "error"
                   /\ outcome' = Rethrown(UndefinedAnalyzer)
                   /\ analyzerProvider' = "undefined"
                   /\ UNCHANGED <<jcall, sent, analysisPrompt>>
              ELSE /\ analyzerProvider' = FindAnalyzer(providers, resp)
                   /\ jcall' = NewCall
                   /\ sent' = [sent EXCEPT !.analysis = @ + 1]
                   /\ analysisPrompt' = buildAnalysisPrompt(resp)
                   /\ pc' = "analysis"
                   /\ UNCHANGED outcome
    /\ UNCHANGED <<variant, storage, localStorage, now, store, awaiting,
                   completed, sessionStats, usageFile, applied, returned, prompts, apiKeys, claudeCodeMode, maxRoundsArg, providers, round,
                   analysis, faults>>

\* Promise.allSettled of a refinement round resolved: lines 250-275 and the
\* loop head
JoinRefinement ==
    /\ variant = "mcp"
    /\ pc = "refinement"
    /\ AllSettled
    /\ LET ok == SelectSeqBy(SettledOrder, Fulfilled)
           newResponses == [i \in 1..Len(ok) |-> ModelResponse(ok[i], round)]
       IN  /\ allResponses' = allResponses \o [i \in 1..Len(ok) |->
                  [provider |-> newResponses[i].provider,
                   model |-> newResponses[i].model,
                   content |-> newResponses[i].content, round |-> round]]
           /\ IF Len(newResponses) > 0
              THEN /\ currentResponses' = newResponses
                   /\ fcall' = FanOut({})
                   /\ jcall' = NewCall
                   /\ sent' = [sent EXCEPT !.analysis = @ + 1]
                   /\ analysisPrompt' = buildAnalysisPrompt(newResponses)
                   /\ prompts' = NoPrompts
                   /\ pc' = "analysis"
                   /\ UNCHANGED <<round, completed>>
              ELSE /\ UNCHANGED <<currentResponses, analysisPrompt>>
                   /\ Continue(analysis, currentResponses)
    /\ UNCHANGED <<variant, storage, localStorage, now, store, awaiting,
                   sessionStats, usageFile, applied, returned, apiKeys, claudeCodeMode, maxRoundsArg, providers, errors,
                   analysis, analyzerProvider, outcome, faults>>

JudgeRejects(m) ==
    /\ variant = "mcp"
    /\ pc \in {"analysis", "synthesis"}
    /\ jcall.st = "pending"
    /\ faults < MaxFaults
    /\ faults' = faults + 1
    /\ jcall' = OnChatRejected(jcall, m)
    /\ IF jcall'.st = "rejected"
       THEN pc' = "error" /\ outcome' = Rethrown(jcall'.reason)
       ELSE UNCHANGED <<pc, outcome>>
    /\ UNCHANGED <<variant, storage, localStorage, now, store, awaiting,
                   completed, sessionStats, usageFile, applied, returned, prompts, analysisPrompt, apiKeys, claudeCodeMode, maxRoundsArg, providers, round,
                   currentResponses, allResponses, errors, analysis,
                   analyzerProvider, fcall, sent>>

JudgeBackoffElapsed ==
    /\ variant = "mcp"
    /\ pc \in {"analysis", "synthesis"}
    /\ jcall.st = "backoff"
    /\ jcall' = OnBackoffElapsed(jcall)
    /\ IF jcall'.st = "rejected"
       THEN pc' = "error" /\ outcome' = Rethrown(jcall'.reason)
       ELSE UNCHANGED <<pc, outcome>>
    /\ UNCHANGED <<variant, storage, localStorage, now, store, awaiting,
                   completed, sessionStats, usageFile, applied, returned, prompts, analysisPrompt, apiKeys, claudeCodeMode, maxRoundsArg, providers, round,
                   currentResponses, allResponses, errors, analysis,
                   analyzerProvider, fcall, sent, faults>>

\* the analysis call resolved with JudgeOutputs[i]: trackUsage,
\* parseAnalysis and the loop head
AnalysisResolves(i, usageOk) ==
    /\ variant = "mcp"
    /\ pc = "analysis"
    /\ jcall.st = "pending"
    /\ usageOk \/ faults < MaxFaults
    /\ sessionStats' = trackUsage(sessionStats, analyzerProvider)
    /\ usageFile' = trackMonthlyUsage(usageFile, analyzerProvider, usageOk)
    /\ faults' = IF usageOk THEN faults ELSE faults + 1
    /\ IF usageOk
       THEN /\ analysis' = parseAnalysis(JudgeOutputs[i])
            /\ Continue(analysis', currentResponses)
            /\ UNCHANGED outcome
       ELSE /\ jcall' = OnChatResolved(jcall, usageOk)
            /\ pc' = "error"
            /\ outcome' = Rethrown(UsageWriteError)
            /\ UNCHANGED <<analysis, round, fcall, sent, prompts, completed>>
    /\ UNCHANGED <<variant, storage, localStorage, now, store, awaiting,
                   applied, returned, analysisPrompt, apiKeys, claudeCodeMode, maxRoundsArg, providers,
                   currentResponses, allResponses, errors, analyzerProvider>>

\* lines 286-301
BuildResult ==
    LET result == [type |-> "result",
                   consensus |-> Content(analyzerProvider, "synthesis", round),
                   analysis |-> analysis,
                   rounds |-> round,
                   responses |-> allResponses]
    IN  IF claudeCodeMode
        THEN [f \in DOMAIN result \cup {"orchestratorNote"} |->
                 IF f = "orchestratorNote" THEN "You (Claude) are the orchestrator."
                 ELSE result[f]]
        ELSE result

\* the synthesis call resolved: trackUsage and the result
SynthesisResolves(usageOk) ==
    /\ variant = "mcp"
    /\ pc = "synthesis"
    /\ jcall.st = "pending"
    /\ usageOk \/ faults < MaxFaults
    /\ sessionStats' = trackUsage(sessionStats, analyzerProvider)
    /\ usageFile' = trackMonthlyUsage(usageFile, analyzerProvider, usageOk)
    /\ faults' = IF usageOk THEN faults ELSE faults + 1
    /\ jcall' = OnChatResolved(jcall, usageOk)
    /\ IF usageOk
       THEN pc' = "done" /\ outcome' = BuildResult
       ELSE pc' = "error" /\ outcome' = Rethrown(UsageWriteError)
    /\ UNCHANGED <<variant, storage, localStorage, now, store, awaiting,
                   completed, applied, returned, prompts, analysisPrompt, apiKeys, claudeCodeMode, maxRoundsArg, providers, round,
                   currentResponses, allResponses, errors, analysis,
                   analyzerProvider, fcall, sent>>

Next ==
    \/ Start
    \/ \E p \in Providers, m \in Messages : ChatRejects(p, m)
    \/ \E p \in Providers : BackoffElapsed(p)
    \/ \E p \in Providers, usageOk \in BOOLEAN : ChatResolves(p, usageOk)
    \/ JoinInitial
    \/ JoinRefinement
    \/ \E m \in Messages : JudgeRejects(m)
    \/ JudgeBackoffElapsed
    \/ \E i \in 1..Len(JudgeOutputs), usageOk \in BOOLEAN : AnalysisResolves(i, usageOk)
    \/ \E usageOk \in BOOLEAN : SynthesisResolves(usageOk)

Spec == Init /\ [][Next]_vars

\* ------------------------------------------- sendHivemindMessage (web app)
\* The hook of the web app runs the same deliberation without the retry
\* driver: Promise.all over the three providers (the first rejection fails
\* the ask), the judge is Anthropic, and the loop has its own bounds.
WEB_MAX_ROUNDS == 3
HIGH_CONFIDENCE == 80

WebOrder == <<"openai", "anthropic", "google">>

WEB_MODELS == [p \in Providers |->
    CASE p = "openai" -> "gpt-4o"
      [] p = "anthropic" -> "claude-3-5-sonnet-20241022"
      [] p = "google" -> "gemini-2.0-flash-exp"]

WebResponse(p, r) ==
    [model |-> WEB_MODELS[p], provider |-> p, content |-> Content(p, "answer", r)]

WebInit ==
    /\ variant = "web"
    /\ applied = NotApplied
    /\ returned = NotReturned
    /\ NoBrowser
    /\ apiKeys \in SUBSET Providers
    /\ claudeCodeMode = FALSE
    /\ maxRoundsArg = <<>>
    /\ Fresh

\* if (!apiKeys.openai || !apiKeys.anthropic || !apiKeys.google) throw
WebStart ==
    /\ variant = "web"
    /\ pc = "idle"
    /\ IF apiKeys # Providers
       THEN /\ pc' = "error"
            /\ outcome' = [type |-> "error", name |-> "All three API keys are required"]
            /\ UNCHANGED <<providers, fcall, sent>>
       ELSE /\ providers' = WebOrder
            /\ fcall' = FanOut(Providers)
            /\ sent' = [sent EXCEPT !.initial = @ + 3]
            /\ pc' = "initial"
            /\ UNCHANGED outcome
    /\ UNCHANGED <<variant, storage, localStorage, now, store, awaiting,
                   completed, sessionStats, usageFile, applied, returned, prompts, analysisPrompt, apiKeys, claudeCodeMode, maxRoundsArg, round,
                   currentResponses, allResponses, errors, analysis,
                   analyzerProvider, jcall, faults>>

WebChatResolves(p) ==
    /\ variant = "web"
    /\ pc \in {"initial", "refinement"}
    /\ fcall[p].st = "pending"
    /\ fcall' = [fcall EXCEPT ![p] = [@ EXCEPT !.st = "fulfilled", !.okAt = 1]]
    /\ completed' = Completed(p, fcall'[p])
    /\ UNCHANGED <<variant, storage, localStorage, now, store, awaiting,
                   sessionStats, usageFile, applied, returned, prompts, analysisPrompt, apiKeys, claudeCodeMode, maxRoundsArg, pc, providers,
                   round, currentResponses, allResponses, errors, analysis,
                   analyzerProvider, jcall, outcome, sent, faults>>

\* a rejection inside Promise.all rejects the whole ask
WebChatRejects(p, m) ==
    /\ variant = "web"
    /\ pc \in {"initial", "refinement"}
    /\ fcall[p].st = "pending"
    /\ fcall' = [fcall EXCEPT ![p] =
          [@ EXCEPT !.st = "rejected", !.log = <<m>>, !.reason = m, !.by = "chat"]]
    /\ completed' = Completed(p, fcall'[p])
    /\ pc' = "error"
    /\ outcome' = Rethrown(m)
    /\ faults' = faults + 1
    /\ UNCHANGED <<variant, storage, localStorage, now, store, awaiting,
                   sessionStats, usageFile, applied, returned, prompts, analysisPrompt, apiKeys, claudeCodeMode, maxRoundsArg, providers,
                   round, currentResponses, allResponses, errors, analysis,
                   analyzerProvider, jcall, sent>>

\* the head of while (round < MAX_ROUNDS): the next analysis call, or the
\* synthesis call once the loop is left
WebLoopHead ==
    IF round < WEB_MAX_ROUNDS
    THEN /\ round' = round + 1
         /\ sent' = [sent EXCEPT !.analysis = @ + 1]
         /\ pc' = "analysis"
    ELSE /\ round' = round
         /\ sent' = [sent EXCEPT !.synthesis = @ + 1]
         /\ pc' = "synthesis"

\* Promise.all resolved (round 1 or a refinement): responses is replaced
WebJoin ==
    /\ variant = "web"
    /\ pc \in {"initial", "refinement"}
    /\ \A p \in Providers : fcall[p].st = "fulfilled"
    /\ currentResponses' =
          [i \in 1..3 |-> WebResponse(WebOrder[i],
                                      IF pc = "initial" THEN 1 ELSE round + 1)]
    /\ fcall' = FanOut({})
    /\ completed' = <<>>
    /\ jcall' = NewCall
    /\ analyzerProvider' = "anthropic"
    /\ analysisPrompt' = buildAnalysisPrompt(currentResponses')
    /\ prompts' = NoPrompts
    /\ WebLoopHead
    /\ UNCHANGED <<variant, storage, localStorage, now, store, awaiting,
                   sessionStats, usageFile, applied, returned, apiKeys, claudeCodeMode, maxRoundsArg, providers,
                   allResponses, errors, analysis, outcome, faults>>

\* the three buildRefinementPrompt calls of the hook: the previous answer
\* is the content of the round-1 response (gptResponse, claudeResponse,
\* geminiResponse), the other answers come from responses
WebRefinementPrompts(responses, an) ==
    [p \in Providers |->
        buildRefinementPrompt(Content(p, "answer", 1), responses,
                              an.divergences, WEB_MODELS[p])]

\* the break on consensus or high confidence
WebBreaks(an) == an.hasConsensus \/ an.confidence > HIGH_CONFIDENCE

WebAnalysisResolves(i) ==
    /\ variant = "web"
    /\ pc = "analysis"
    /\ jcall.st = "pending"
    /\ analysis' = parseAnalysis(JudgeOutputs[i])
    /\ IF ~WebBreaks(analysis') /\ round < WEB_MAX_ROUNDS
       THEN /\ fcall' = FanOut(Providers)
            /\ jcall' = NoCall
            /\ sent' = [sent EXCEPT !.refinement = @ + 3]
            /\ prompts' = WebRefinementPrompts(currentResponses, analysis')
            /\ pc' = "refinement"
       ELSE /\ fcall' = FanOut({})
            /\ jcall' = NewCall
            /\ sent' = [sent EXCEPT !.synthesis = @ + 1]
            /\ prompts' = NoPrompts
            /\ pc' = "synthesis"
    /\ UNCHANGED <<variant, storage, localStorage, now, store, awaiting,
                   completed, sessionStats, usageFile, applied, returned, analysisPrompt, apiKeys, claudeCodeMode, maxRoundsArg, providers,
                   round, currentResponses, allResponses, errors,
                   analyzerProvider, outcome, faults>>

WebJudgeRejects(m) ==
    /\ variant = "web"
    /\ pc \in {"analysis", "synthesis"}
    /\ jcall.st = "pending"
    /\ jcall' = [jcall EXCEPT !.st = "rejected", !.log = <<m>>, !.reason = m,
                              !.by = "chat"]
    /\ pc' = "error"
    /\ outcome' = Rethrown(m)
    /\ faults' = faults + 1
    /\ UNCHANGED <<variant, storage, localStorage, now, store, awaiting,
                   completed, sessionStats, usageFile, applied, returned, prompts, analysisPrompt, apiKeys, claudeCodeMode, maxRoundsArg, providers,
                   round, currentResponses, allResponses, errors, analysis,
                   analyzerProvider, fcall, sent>>

WebSynthesisResolves ==
    /\ variant = "web"
    /\ pc = "synthesis"
    /\ jcall.st = "pending"
    /\ jcall' = [jcall EXCEPT !.st = "fulfilled", !.okAt = 1]
    /\ pc' = "done"
    /\ outcome' = [type |-> "result",
                   consensus |-> Content(analyzerProvider, "synthesis", round),
                   rounds |-> round,
                   modelResponses |-> currentResponses,
                   analysis |-> analysis]
    /\ UNCHANGED <<variant, storage, localStorage, now, store, awaiting,
                   completed, sessionStats, usageFile, applied, returned, prompts, analysisPrompt, apiKeys, claudeCodeMode, maxRoundsArg, providers,
                   round, currentResponses, allResponses, errors, analysis,
                   analyzerProvider, fcall, sent, faults>>

WebNext ==
    \/ WebStart
    \/ \E p \in Providers : WebChatResolves(p)
    \/ \E p \in Providers, m \in Messages : WebChatRejects(p, m)
    \/ WebJoin
    \/ \E i \in 1..Len(JudgeOutputs) : WebAnalysisResolves(i)
    \/ \E m \in Messages : WebJudgeRejects(m)
    \/ WebSynthesisResolves

\* ------------------------------------ hivemindTool, the one-round variant
\* The variant of hivemindTool that leaves the deliberation to its caller
\* (packages/mcp/src/index.ts): one round of queries, either the question
\* to every available provider or one targeted question per entry of
\* queries.  Here providers holds the provider of every entry of
\* providerQueries and fcall holds one call per entry, in that order.
QueryInit ==
    /\ variant = "queries"
    /\ applied = NotApplied
    /\ returned = NotReturned
    /\ NoBrowser
    /\ apiKeys \in SUBSET Providers
    /\ claudeCodeMode \in BOOLEAN
    /\ maxRoundsArg = <<>>
    /\ Fresh

\* the providers queried: for (const q of queries) find + push, or every
\* available provider
ProviderQueries(queries) ==
    IF Len(queries) > 0
    THEN SelectSeq(queries, LAMBDA q : q \in Range(BuildProviders))
    ELSE BuildProviders

\* the answer to the i-th query
QueryResponse(p, i) ==
    [provider |-> p, model |-> DEFAULT_MODELS[p],
     content |-> [by |-> p, kind |-> "answer", round |-> 1, query |-> i]]

\* up to the await of Promise.allSettled; queries lists the provider of
\* every entry of params.queries (<<>> when it is omitted or empty)
QueryStart(queries) ==
    /\ variant = "queries"
    /\ pc = "idle"
    /\ IF ~hasRequiredKeys
       THEN /\ pc' = "error"
            /\ outcome' = [type |-> "error", name |-> "No API keys configured"]
            /\ UNCHANGED <<providers, fcall, sent>>
       ELSE IF BuildProviders = <<>>
       THEN /\ pc' = "error"
            /\ outcome' = [type |-> "error", name |-> "No providers available"]
            /\ UNCHANGED <<providers, fcall, sent>>
       ELSE IF ProviderQueries(queries) = <<>>
       THEN /\ pc' = "error"
            /\ outcome' = [type |-> "error", name |-> "No valid providers to query"]
            /\ UNCHANGED <<providers, fcall, sent>>
       ELSE /\ providers' = ProviderQueries(queries)
            /\ fcall' = [i \in 1..Len(ProviderQueries(queries)) |-> NewCall]
            /\ sent' = [sent EXCEPT !.initial = @ + Len(ProviderQueries(queries))]
            /\ pc' = "initial"
            /\ UNCHANGED outcome
    /\ UNCHANGED <<variant, storage, localStorage, now, store, awaiting,
                   completed, sessionStats, usageFile, applied, returned, prompts, analysisPrompt, apiKeys, claudeCodeMode,
                   maxRoundsArg, round, currentResponses, allResponses, errors,
                   analysis, analyzerProvider, jcall, faults>>

QueryChatRejects(i, m) ==
    /\ variant = "queries"
    /\ pc = "initial"
    /\ i \in 1..Len(fcall)
    /\ fcall[i].st = "pending"
    /\ faults < MaxFaults
    /\ fcall' = [fcall EXCEPT ![i] = OnChatRejected(@, m)]
    /\ faults' = faults + 1
    /\ completed' = Completed(i, fcall'[i])
    /\ UNCHANGED <<variant, storage, localStorage, now, store, awaiting,
                   sessionStats, usageFile, applied, returned, prompts, analysisPrompt, apiKeys, claudeCodeMode,
                   maxRoundsArg, pc, providers, round, currentResponses,
                   allResponses, errors, analysis, analyzerProvider, jcall,
                   outcome, sent>>

QueryBackoffElapsed(i) ==
    /\ variant = "queries"
    /\ pc = "initial"
    /\ i \in 1..Len(fcall)
    /\ fcall[i].st = "backoff"
    /\ fcall' = [fcall EXCEPT ![i] = OnBackoffElapsed(@)]
    /\ completed' = Completed(i, fcall'[i])
    /\ UNCHANGED <<variant, storage, localStorage, now, store, awaiting,
                   sessionStats, usageFile, applied, returned, prompts, analysisPrompt, apiKeys, claudeCodeMode,
                   maxRoundsArg, pc, providers, round, currentResponses,
                   allResponses, errors, analysis, analyzerProvider, jcall,
                   outcome, sent, faults>>

QueryChatResolves(i, usageOk) ==
    /\ variant = "queries"
    /\ pc = "initial"
    /\ i \in 1..Len(fcall)
    /\ fcall[i].st = "pending"
    /\ usageOk \/ faults < MaxFaults
    /\ fcall' = [fcall EXCEPT ![i] = OnChatResolved(@, usageOk)]
    /\ completed' = Completed(i, fcall'[i])
    /\ sessionStats' = trackUsage(sessionStats, providers[i])
    /\ usageFile' = trackMonthlyUsage(usageFile, providers[i], usageOk)
    /\ faults' = IF usageOk THEN faults ELSE faults + 1
    /\ UNCHANGED <<variant, storage, localStorage, now, store, awaiting,
                   applied, returned, prompts, analysisPrompt, apiKeys, claudeCodeMode,
                   maxRoundsArg, pc, providers, round, currentResponses,
                   allResponses, errors, analysis, analyzerProvider, jcall,
                   outcome, sent>>

\* results.forEach and the result
QueryJoin ==
    /\ variant = "queries"
    /\ pc = "initial"
    /\ completed' = <<>>
    /\ \A i \in 1..Len(fcall) : Settled(fcall[i])
    /\ LET ok == SelectSeq([i \in 1..Len(fcall) |-> i],
                           LAMBDA i : fcall[i].st = "fulfilled")
           failed == SelectSeq([i \in 1..Len(fcall) |-> i],
                               LAMBDA i : fcall[i].st = "rejected")
           responses == [k \in 1..Len(ok) |-> QueryResponse(providers[ok[k]], ok[k])]
           errs == [k \in 1..Len(failed) |->
                      [provider |-> providers[failed[k]],
                       error |-> fcall[failed[k]].reason]]
       IN  /\ errors' = errs
           /\ IF Len(responses) = 0
              THEN /\ pc' = "error"
                   /\ outcome' = [type |-> "error", name |-> "All providers failed",
                                  errorList |-> errs]
              ELSE /\ pc' = "done"
                   /\ outcome' =
                         IF Len(errs) > 0
                         THEN [type |-> "result", responses |-> responses,
                               errors |-> errs]
                         ELSE [type |-> "result", responses |-> responses]
    /\ UNCHANGED <<variant, storage, localStorage, now, store, awaiting,
                   sessionStats, usageFile, applied, returned, prompts, analysisPrompt, apiKeys, claudeCodeMode,
                   maxRoundsArg, providers, round, currentResponses, allResponses,
                   analysis, analyzerProvider, fcall, jcall, sent, faults>>

\* the positions of providerQueries
QueryIndexes == 1..(IF MaxQueries > Len(ProviderOrder) THEN MaxQueries
                    ELSE Len(ProviderOrder))

QueryNext ==
    \/ \E queries \in UNION {[1..n -> Providers] : n \in 0..MaxQueries} :
          QueryStart(queries)
    \/ \E i \in QueryIndexes, m \in Messages : QueryChatRejects(i, m)
    \/ \E i \in QueryIndexes : QueryBackoffElapsed(i)
    \/ \E i \in QueryIndexes, usageOk \in BOOLEAN : QueryChatResolves(i, usageOk)
    \/ QueryJoin

\* both variants of the tool
ToolInit == Init \/ QueryInit

ToolNext == Next \/ QueryNext

ToolSpec == ToolInit /\ [][ToolNext]_vars

\* ------------------------------------------- the library functions alone
\* categorizeError, retryWithBackoff (up to the decision after the first
\* failed attempt) and parseAnalysis are called on their own, on every
\* input of a bounded set.
Vocabulary ==
    {"401", "unauthorized", "403", "forbidden", "429", "rate", "limit",
     "ratelimit", "500", "400", "404", "not", "found", "bad", "request",
     "econnrefused", "econnreset", "etimedout", "enetunreach", "enotfound",
     "timeout", "fetch", "failed", "getaddrinfo", "something", "odd"}

\* the messages of at most MaxWords words
UnitMessages == UNION {[1..n -> Vocabulary] : n \in 1..MaxWords}

\* what the judge can put in a field of its JSON object
UnitHasConsensus == {JBool(TRUE), JBool(FALSE), JAbsent, JStr("false"), JNum(0)}
UnitArrays == {JArr(<<"x1">>), JArr(<<>>), JAbsent, JStr("x1")}
UnitConfidence == {JNum(90), JNum(150), JNum(-10), JAbsent, JStr("0.9")}

\* the answers of the judge: text without {...}, a {...} that JSON.parse
\* rejects, or a JSON object
UnitResponses ==
    {[kind |-> "text"], [kind |-> "badjson"]} \cup
    {[kind |-> "json", hasConsensus |-> h, agreements |-> a,
      divergences |-> d, confidence |-> c] :
        h \in UnitHasConsensus, a \in UnitArrays, d \in UnitArrays,
        c \in UnitConfidence}

\* the answers of the judge as text, of at most MaxAtoms pieces
UnitTexts == UNION {[1..n -> RawAtoms] : n \in 1..MaxAtoms}

UnitInit ==
    /\ variant = "unit"
    /\ applied \in
          {[fn |-> f, arg |-> m] :
              f \in {"categorizeError", "retryWithBackoff"}, m \in UnitMessages}
          \cup {[fn |-> "parseAnalysis", arg |-> r] : r \in UnitResponses}
          \cup {[fn |-> "parseAnalysisText", arg |-> r] : r \in UnitTexts}
    /\ returned = NotReturned
    /\ NoBrowser
    /\ apiKeys = {}
    /\ claudeCodeMode = FALSE
    /\ maxRoundsArg = <<>>
    /\ Fresh

\* categorizeError(new Error(message))
ApplyCategorizeError ==
    /\ variant = "unit"
    /\ applied.fn = "categorizeError"
    /\ returned = NotReturned
    /\ returned' = [fn |-> applied.fn, value |-> categorizeError(applied.arg)]
    /\ UNCHANGED <<variant, storage, localStorage, now, store, awaiting,
                   completed, sessionStats, usageFile, applied, prompts, analysisPrompt, apiKeys, claudeCodeMode,
                   maxRoundsArg, pc, providers, round, currentResponses,
                   allResponses, errors, analysis, analyzerProvider, fcall,
                   jcall, outcome, sent, faults>>

\* retryWithBackoff(fn) where the first fn() rejects with Error(message):
\* the call after its catch block
ApplyRetryWithBackoff ==
    /\ variant = "unit"
    /\ applied.fn = "retryWithBackoff"
    /\ returned = NotReturned
    /\ returned' = [fn |-> applied.fn, value |-> OnChatRejected(NewCall, applied.arg)]
    /\ UNCHANGED <<variant, storage, localStorage, now, store, awaiting,
                   completed, sessionStats, usageFile, applied, prompts, analysisPrompt, apiKeys, claudeCodeMode,
                   maxRoundsArg, pc, providers, round, currentResponses,
                   allResponses, errors, analysis, analyzerProvider, fcall,
                   jcall, outcome, sent, faults>>

\* parseAnalysis(response)
ApplyParseAnalysis ==
    /\ variant = "unit"
    /\ applied.fn = "parseAnalysis"
    /\ returned = NotReturned
    /\ returned' = [fn |-> applied.fn, value |-> parseAnalysis(applied.arg)]
    /\ UNCHANGED <<variant, storage, localStorage, now, store, awaiting,
                   completed, sessionStats, usageFile, applied, prompts, analysisPrompt, apiKeys, claudeCodeMode,
                   maxRoundsArg, pc, providers, round, currentResponses,
                   allResponses, errors, analysis, analyzerProvider, fcall,
                   jcall, outcome, sent, faults>>

\* parseAnalysis(response), response given as text
ApplyParseAnalysisText ==
    /\ variant = "unit"
    /\ applied.fn = "parseAnalysisText"
    /\ returned = NotReturned
    /\ returned' = [fn |-> applied.fn, value |-> parseAnalysisText(applied.arg)]
    /\ UNCHANGED <<variant, storage, localStorage, now, store, awaiting,
                   completed, sessionStats, usageFile, applied, prompts, analysisPrompt, apiKeys, claudeCodeMode,
                   maxRoundsArg, pc, providers, round, currentResponses,
                   allResponses, errors, analysis, analyzerProvider, fcall,
                   jcall, outcome, sent, faults>>

UnitNext ==
    \/ ApplyCategorizeError
    \/ ApplyRetryWithBackoff
    \/ ApplyParseAnalysis
    \/ ApplyParseAnalysisText

UnitSpec == UnitInit /\ [][UnitNext]_vars

\* ------------------------------------------------------------- every ask
AskInit == Init \/ WebInit

AskNext == Next \/ WebNext

AskSpec == AskInit /\ [][AskNext]_vars

\* Every step that can be taken is eventually taken: pending chat calls
\* settle, timers fire, continuations run.
FairSpec == AskSpec /\ WF_vars(AskNext)

\* ------------------------------------------- SecureStorage (web app)
\* The storage object of the web app, with the session expiry.  Its async
\* methods are cut at their awaits: a call runs up to its first await in
\* one step, is then listed in awaiting, and resumes in a later step.
\* The clock counts units of ten minutes, and every call and callback
\* runs on a multiple of the unit.
\* 30 * 60 * 1000 ms
SESSION_DURATION == 3
\* setTimeout(checkExpiry, 60000): the checks of the timer fall within the
\* unit, so the first one the clock can tell from its start runs a unit
\* after the timer was started
CHECK_INTERVAL == 1

\* the last instant of the clock
MaxNow == 4
\* how many calls can be suspended at an await at once
MaxPending == 1

Passwords == {"", "pw"}

ApiKeySets == {"keys1", "keys2"}

\* the variables of an ask, which the web app leaves alone
askVars == <<apiKeys, claudeCodeMode, maxRoundsArg, pc, providers, round,
             currentResponses, allResponses, errors, analysis,
             analyzerProvider, fcall, jcall, outcome, sent, prompts,
             analysisPrompt, faults, completed, sessionStats, usageFile>>

\* ---- crypto.ts: the salts are random and not kept
hashPassword(password) == [format |-> "pbkdf2-sha512", password |-> password]

\* the SHA-256 hash of older versions
LegacyHash(password) == [format |-> "sha256", password |-> password]

verifyPasswordHash(password, storedHash) ==
    /\ storedHash.format \in {"sha256", "pbkdf2-sha512"}
    /\ storedHash.password = password

encrypt(data, password) == [cipher |-> data, key |-> password]

\* AES-GCM rejects a wrong key
DecryptFails(encryptedData, password) == encryptedData.key # password

decrypt(encryptedData, password) == encryptedData.cipher

JSONstringify(x) == [json |-> x]

JSONparse(text) == text.json

\* ---- the private helpers of SecureStorage
\* this.password as a condition: null and '' are falsy
HoldsPassword(s) == s.password # NoPassword /\ s.password # <<"">>

\* a guard that lets every call through
StorageIsLocked_Never(s) == FALSE

\* if (!this.password) throw new Error('Storage is locked')
StorageIsLocked(s) == ~HoldsPassword(s)

\* a lock that clears the session and keeps the password
lock_KeepsPassword(s) == [s EXCEPT !.sessionExpiry = 0, !.expiryTimer = <<>>]

lock(s) == [s EXCEPT !.password = NoPassword, !.sessionExpiry = 0, !.expiryTimer = <<>>]

checkSession(s) ==
    IF HoldsPassword(s) /\ now >= s.sessionExpiry THEN lock(s) ELSE s

extendSession(s) ==
    IF HoldsPassword(s) THEN [s EXCEPT !.sessionExpiry = now + SESSION_DURATION]
    ELSE s

startExpiryTimer(s) == [s EXCEPT !.expiryTimer = <<now + CHECK_INTERVAL>>]

\* ---- calls, suspended calls and results
Returned(fn, value) == [fn |-> fn, value |-> value]

Threw(fn, message) == [fn |-> fn, threw |-> message]

\* a call suspended at an await, with the arguments of the awaited function
\* (pw is <<password>>, or <<>> for null)
Suspended(op, pw, data) == [op |-> op, pw |-> pw, data |-> data]

Remove(seq, i) == SubSeq(seq, 1, i - 1) \o SubSeq(seq, i + 1, Len(seq))

\* what localStorage can hold when the page is loaded
PersistedStates ==
    {EmptyLocalStorage} \cup
    {[EmptyLocalStorage EXCEPT !.hivemind_password_hash = <<h>>,
                               !.hivemind_api_keys = k] :
        h \in {hashPassword("pw"), LegacyHash("pw")},
        k \in {NoItem, <<encrypt(JSONstringify("keys1"), <<"pw">>)>>}}

StorageInit ==
    /\ variant = "storage"
    /\ applied = NotApplied
    /\ returned = NotReturned
    /\ apiKeys = {}
    /\ claudeCodeMode = FALSE
    /\ maxRoundsArg = <<>>
    /\ Fresh
    /\ storage = NewSecureStorage
    /\ localStorage \in PersistedStates
    /\ now = 0
    /\ store = EmptyStore
    /\ awaiting = <<>>

\* setPassword up to await hashPassword(password)
SetPassword(password) ==
    /\ variant = "storage"
    /\ Len(awaiting) < MaxPending
    /\ awaiting' = Append(awaiting, Suspended("setPassword", <<password>>, <<>>))
    /\ UNCHANGED <<variant, storage, localStorage, now, store, returned, applied>>
    /\ UNCHANGED askVars

SetPasswordResumes(i) ==
    /\ variant = "storage"
    /\ i \in 1..Len(awaiting)
    /\ awaiting[i].op = "setPassword"
    /\ localStorage' = [localStorage EXCEPT
           !.hivemind_password_hash = <<hashPassword(awaiting[i].pw[1])>>]
    /\ storage' = startExpiryTimer(
           [storage EXCEPT !.password = awaiting[i].pw,
                           !.sessionExpiry = now + SESSION_DURATION])
    /\ awaiting' = Remove(awaiting, i)
    /\ returned' = Returned("setPassword", "undefined")
    /\ UNCHANGED <<variant, now, store, applied>>
    /\ UNCHANGED askVars

\* unlock up to await verifyPasswordHash(password, storedHash)
Unlock(password) ==
    /\ variant = "storage"
    /\ Len(awaiting) < MaxPending
    /\ IF localStorage.hivemind_password_hash = NoItem
       THEN /\ returned' = Returned("unlock", FALSE)
            /\ UNCHANGED awaiting
       ELSE /\ awaiting' = Append(awaiting,
                   Suspended("unlock", <<password>>, localStorage.hivemind_password_hash[1]))
            /\ UNCHANGED returned
    /\ UNCHANGED <<variant, storage, localStorage, now, store, applied>>
    /\ UNCHANGED askVars

\* unlock after verifyPasswordHash, up to await hashPassword of the migration
UnlockResumes(i) ==
    /\ variant = "storage"
    /\ i \in 1..Len(awaiting)
    /\ awaiting[i].op = "unlock"
    /\ IF verifyPasswordHash(awaiting[i].pw[1], awaiting[i].data)
       THEN /\ storage' = startExpiryTimer(
                   [storage EXCEPT !.password = awaiting[i].pw,
                                   !.sessionExpiry = now + SESSION_DURATION])
            /\ IF awaiting[i].data.format # "pbkdf2-sha512"
               THEN /\ awaiting' = [awaiting EXCEPT ![i] =
                           Suspended("migrate", awaiting[i].pw, <<>>)]
                    /\ UNCHANGED returned
               ELSE /\ awaiting' = Remove(awaiting, i)
                    /\ returned' = Returned("unlock", TRUE)
       ELSE /\ awaiting' = Remove(awaiting, i)
            /\ returned' = Returned("unlock", FALSE)
            /\ UNCHANGED storage
    /\ UNCHANGED <<variant, localStorage, now, store, applied>>
    /\ UNCHANGED askVars

\* unlock after the hashPassword of the migration
MigrateResumes(i) ==
    /\ variant = "storage"
    /\ i \in 1..Len(awaiting)
    /\ awaiting[i].op = "migrate"
    /\ localStorage' = [localStorage EXCEPT
           !.hivemind_password_hash = <<hashPassword(awaiting[i].pw[1])>>]
    /\ awaiting' = Remove(awaiting, i)
    /\ returned' = Returned("unlock", TRUE)
    /\ UNCHANGED <<variant, storage, now, store, applied>>
    /\ UNCHANGED askVars

Lock ==
    /\ variant \in {"storage", "store"}
    /\ storage' = lock(storage)
    /\ returned' = Returned("lock", "undefined")
    /\ UNCHANGED <<variant, localStorage, now, store, awaiting, applied>>
    /\ UNCHANGED askVars

IsUnlocked ==
    /\ variant = "storage"
    /\ storage' = checkSession(storage)
    /\ returned' = Returned("isUnlocked", storage'.password # NoPassword)
    /\ UNCHANGED <<variant, localStorage, now, store, awaiting, applied>>
    /\ UNCHANGED askVars

GetState ==
    /\ variant = "storage"
    /\ storage' = checkSession(storage)
    /\ returned' = Returned("getState",
           [isLocked |-> localStorage.hivemind_password_hash # NoItem
                           /\ ~HoldsPassword(storage'),
            hasPassword |-> localStorage.hivemind_password_hash # NoItem,
            hasKeys |-> localStorage.hivemind_api_keys # NoItem])
    /\ UNCHANGED <<variant, localStorage, now, store, awaiting, applied>>
    /\ UNCHANGED askVars

\* extendSession() called on user activity
ExtendSession ==
    /\ variant = "storage"
    /\ storage' = extendSession(storage)
    /\ returned' = Returned("extendSession", "undefined")
    /\ UNCHANGED <<variant, localStorage, now, store, awaiting, applied>>
    /\ UNCHANGED askVars

\* saveApiKeys up to await encrypt(JSON.stringify(keys), this.password)
SaveApiKeys(keys) ==
    /\ variant = "storage"
    /\ Len(awaiting) < MaxPending
    /\ storage' = checkSession(storage)
    /\ IF StorageIsLocked(storage')
       THEN /\ returned' = Threw("saveApiKeys", "Storage is locked")
            /\ UNCHANGED awaiting
       ELSE /\ awaiting' = Append(awaiting,
                   Suspended("saveApiKeys", storage'.password, JSONstringify(keys)))
            /\ UNCHANGED returned
    /\ UNCHANGED <<variant, localStorage, now, store, applied>>
    /\ UNCHANGED askVars

SaveApiKeysResumes(i) ==
    /\ variant = "storage"
    /\ i \in 1..Len(awaiting)
    /\ awaiting[i].op = "saveApiKeys"
    /\ localStorage' = [localStorage EXCEPT
           !.hivemind_api_keys = <<encrypt(awaiting[i].data, awaiting[i].pw)>>]
    /\ storage' = extendSession(storage)
    /\ awaiting' = Remove(awaiting, i)
    /\ returned' = Returned("saveApiKeys", "undefined")
    /\ UNCHANGED <<variant, now, store, applied>>
    /\ UNCHANGED askVars

\* getApiKeys up to await decrypt(encrypted, this.password)
GetApiKeys ==
    /\ variant = "storage"
    /\ Len(awaiting) < MaxPending
    /\ storage' = checkSession(storage)
    /\ IF StorageIsLocked(storage')
       THEN /\ returned' = Threw("getApiKeys", "Storage is locked")
            /\ UNCHANGED awaiting
       ELSE IF localStorage.hivemind_api_keys = NoItem
       THEN /\ returned' = Returned("getApiKeys", "null")
            /\ UNCHANGED awaiting
       ELSE /\ awaiting' = Append(awaiting,
                   Suspended("getApiKeys", storage'.password,
                             localStorage.hivemind_api_keys[1]))
            /\ UNCHANGED returned
    /\ UNCHANGED <<variant, localStorage, now, store, applied>>
    /\ UNCHANGED askVars

GetApiKeysResumes(i) ==
    /\ variant = "storage"
    /\ i \in 1..Len(awaiting)
    /\ awaiting[i].op = "getApiKeys"
    /\ IF DecryptFails(awaiting[i].data, awaiting[i].pw)
       THEN /\ returned' = Returned("getApiKeys", "null")
            /\ UNCHANGED storage
       ELSE /\ storage' = extendSession(storage)
            /\ returned' = Returned("getApiKeys",
                   JSONparse(decrypt(awaiting[i].data, awaiting[i].pw)))
    /\ awaiting' = Remove(awaiting, i)
    /\ UNCHANGED <<variant, localStorage, now, store, applied>>
    /\ UNCHANGED askVars

ClearApiKeys ==
    /\ variant = "storage"
    /\ localStorage' = [localStorage EXCEPT !.hivemind_api_keys = NoItem]
    /\ returned' = Returned("clearApiKeys", "undefined")
    /\ UNCHANGED <<variant, storage, now, store, awaiting, applied>>
    /\ UNCHANGED askVars

ClearAll ==
    /\ variant = "storage"
    /\ localStorage' = EmptyLocalStorage
    /\ storage' = lock(storage)
    /\ returned' = Returned("clearAll", "undefined")
    /\ UNCHANGED <<variant, now, store, awaiting, applied>>
    /\ UNCHANGED askVars

\* time passes
Tick ==
    /\ variant = "storage"
    /\ now < MaxNow
    /\ now' = now + 1
    /\ UNCHANGED <<variant, storage, localStorage, store, awaiting, applied, returned>>
    /\ UNCHANGED askVars

\* checkExpiry, the callback of the expiry timer
TimerFires ==
    /\ variant = "storage"
    /\ storage.expiryTimer # <<>>
    /\ now >= storage.expiryTimer[1]
    /\ storage' = IF now >= storage.sessionExpiry THEN lock(storage)
                  ELSE [storage EXCEPT !.expiryTimer = <<now + CHECK_INTERVAL>>]
    /\ UNCHANGED <<variant, localStorage, now, store, awaiting, applied, returned>>
    /\ UNCHANGED askVars

StorageNext ==
    \/ \E password \in Passwords : SetPassword(password)
    \/ \E i \in 1..MaxPending : SetPasswordResumes(i)
    \/ \E password \in Passwords : Unlock(password)
    \/ \E i \in 1..MaxPending : UnlockResumes(i)
    \/ \E i \in 1..MaxPending : MigrateResumes(i)
    \/ Lock
    \/ IsUnlocked
    \/ GetState
    \/ ExtendSession
    \/ \E keys \in ApiKeySets : SaveApiKeys(keys)
    \/ \E i \in 1..MaxPending : SaveApiKeysResumes(i)
    \/ GetApiKeys
    \/ \E i \in 1..MaxPending : GetApiKeysResumes(i)
    \/ ClearApiKeys
    \/ ClearAll
    \/ Tick
    \/ TimerFires

StorageSpec == StorageInit /\ [][StorageNext]_vars

\* ------------------------------------------- useConversationStore (web app)
\* The conversation store and the part of SecureStorage that persists it.
\* The clock stands still here: no session expires.  createdAt, updatedAt
\* and timestamp are left out of the records.
Ids == {"c1", "c2"}

MessageIds == {"m1"}

Modes == {"solo", "hivemind"}

Roles == {"user", "assistant"}

\* how many conversations the store can hold
MaxConversations == 2
\* how many messages a conversation can hold
MaxMessages == 1
\* how many saves or loads can be suspended at once
MaxSaves == 1
\* How many saves are pending at once when the mutations of the store are
\* run on their own.
MaxRacing == 2

Applied(fn, arg) == [fn |-> fn, arg |-> arg]

\* the conversation built by createConversation; id is what generateId
\* returned (a string of base-36 digits, taken to be non-empty)
Conversation(id, mode) ==
    [id |-> id, title |-> "New Chat", messages |-> <<>>, mode |-> mode]

\* null for a missing or empty id: conversations[0]?.id || null
IdOrNull(conversations) ==
    IF conversations # <<>> /\ conversations[1].id # ""
    THEN <<conversations[1].id>> ELSE <<>>

createConversation(st, mode, id) ==
    [st EXCEPT !.conversations = <<Conversation(id, mode)>> \o @,
               !.activeConversationId = <<id>>]

\* a delete that leaves the active id alone
deleteConversation_KeepsActive(st, id) ==
    [st EXCEPT !.conversations = SelectSeq(@, LAMBDA c : c.id # id)]

deleteConversation(st, id) ==
    LET conversations == SelectSeq(st.conversations, LAMBDA c : c.id # id)
    IN  [st EXCEPT !.conversations = conversations,
                   !.activeConversationId =
                       IF @ = <<id>> THEN IdOrNull(conversations) ELSE @]

\* the conversation conv after addMessage(conv.id, {role, content})
WithMessage(conv, role, content, messageId) ==
    [conv EXCEPT
        !.title = IF Len(conv.messages) = 0 /\ role = "user" THEN content ELSE @,
        !.messages = Append(@, [id |-> messageId, role |-> role, content |-> content])]

addMessage(st, conversationId, role, content, messageId) ==
    [st EXCEPT !.conversations =
        [i \in 1..Len(@) |->
            IF @[i].id # conversationId THEN @[i]
            ELSE WithMessage(@[i], role, content, messageId)]]

updateMessage(st, conversationId, messageId, content) ==
    [st EXCEPT !.conversations =
        [i \in 1..Len(@) |->
            IF @[i].id # conversationId THEN @[i]
            ELSE [@[i] EXCEPT !.messages =
                     [k \in 1..Len(@) |->
                         IF @[k].id = messageId THEN [@[k] EXCEPT !.content = content]
                         ELSE @[k]]]]]

\* the stored item is the JSON text of an array
IsPlain(item) == "json" \in DOMAIN item

\* storage.saveConversations(conversations) up to its await: without a
\* password the JSON text is written at once, otherwise encrypt is awaited
SaveConversations(conversations) ==
    /\ storage' = checkSession(storage)
    /\ IF ~HoldsPassword(storage')
       THEN /\ localStorage' = [localStorage EXCEPT
                   !.hivemind_conversations = <<JSONstringify(conversations)>>]
            /\ UNCHANGED awaiting
       ELSE /\ awaiting' = Append(awaiting,
                   Suspended("saveConversations", storage'.password,
                             JSONstringify(conversations)))
            /\ UNCHANGED localStorage

SaveConversationsResumes(i) ==
    /\ variant \in {"store", "saves"}
    /\ i \in 1..Len(awaiting)
    /\ awaiting[i].op = "saveConversations"
    /\ localStorage' = [localStorage EXCEPT
           !.hivemind_conversations = <<encrypt(awaiting[i].data, awaiting[i].pw)>>]
    /\ storage' = extendSession(storage)
    /\ awaiting' = Remove(awaiting, i)
    /\ UNCHANGED <<variant, now, store, applied, returned>>
    /\ UNCHANGED askVars

\* the storage after setPassword('pw') at instant 0
Unlocked ==
    [password |-> <<"pw">>, sessionExpiry |-> SESSION_DURATION,
     expiryTimer |-> <<CHECK_INTERVAL>>]

\* how many saves may be pending when a mutation of the store is called
PendingSaves == IF variant = "saves" THEN MaxRacing ELSE MaxSaves

StoreInit ==
    /\ variant = "store"
    /\ applied = NotApplied
    /\ returned = NotReturned
    /\ apiKeys = {}
    /\ claudeCodeMode = FALSE
    /\ maxRoundsArg = <<>>
    /\ Fresh
    /\ now = 0
    /\ store = EmptyStore
    /\ awaiting = <<>>
    /\ \E conversations \in {NoItem, <<JSONstringify(<<Conversation("c1", "solo")>>)>>} :
          \/ /\ storage = NewSecureStorage
             /\ localStorage = [EmptyLocalStorage EXCEPT
                    !.hivemind_conversations = conversations]
          \/ /\ storage = Unlocked
             /\ localStorage = [EmptyLocalStorage EXCEPT
                    !.hivemind_password_hash = <<hashPassword("pw")>>,
                    !.hivemind_conversations = conversations]

CreateConversation(mode, id) ==
    /\ variant \in {"store", "saves"}
    /\ Len(store.conversations) < MaxConversations
    /\ Len(awaiting) < PendingSaves
    /\ applied' = Applied("createConversation", mode)
    /\ store' = createConversation(store, mode, id)
    /\ SaveConversations(store'.conversations)
    /\ UNCHANGED <<variant, now, returned>>
    /\ UNCHANGED askVars

DeleteConversation(id) ==
    /\ variant \in {"store", "saves"}
    /\ Len(awaiting) < PendingSaves
    /\ applied' = Applied("deleteConversation", id)
    /\ store' = deleteConversation(store, id)
    /\ SaveConversations(store'.conversations)
    /\ UNCHANGED <<variant, now, returned>>
    /\ UNCHANGED askVars

\* id is <<>> for null
SetActiveConversation(id) ==
    /\ variant = "store"
    /\ applied' = Applied("setActiveConversation", id)
    /\ store' = [store EXCEPT !.activeConversationId = id]
    /\ UNCHANGED <<variant, storage, localStorage, now, awaiting, returned>>
    /\ UNCHANGED askVars

AddMessage(conversationId, role, messageId) ==
    /\ variant \in {"store", "saves"}
    /\ Len(awaiting) < PendingSaves
    /\ \A i \in 1..Len(store.conversations) :
          store.conversations[i].id = conversationId =>
              Len(store.conversations[i].messages) < MaxMessages
    /\ applied' = Applied("addMessage", conversationId)
    /\ store' = addMessage(store, conversationId, role, "hello", messageId)
    /\ SaveConversations(store'.conversations)
    /\ UNCHANGED <<variant, now, returned>>
    /\ UNCHANGED askVars

UpdateMessage(conversationId, messageId) ==
    /\ variant \in {"store", "saves"}
    /\ Len(awaiting) < PendingSaves
    /\ applied' = Applied("updateMessage", conversationId)
    /\ store' = updateMessage(store, conversationId, messageId, "edited")
    /\ SaveConversations(store'.conversations)
    /\ UNCHANGED <<variant, now, returned>>
    /\ UNCHANGED askVars

\* loadConversations up to await storage.getConversations(), which reads
\* the item and, when it is not the JSON text of an array, awaits decrypt
LoadConversations ==
    /\ variant = "store"
    /\ Len(awaiting) < MaxSaves
    /\ applied' = Applied("loadConversations", <<>>)
    /\ store' = [store EXCEPT !.isLoading = TRUE]
    /\ LET stored == localStorage.hivemind_conversations
       IN  /\ storage' = IF stored # NoItem /\ ~IsPlain(stored[1])
                         THEN checkSession(storage) ELSE storage
           /\ awaiting' = Append(awaiting,
                  Suspended("loadConversations", storage'.password, stored))
    /\ UNCHANGED <<variant, localStorage, now, returned>>
    /\ UNCHANGED askVars

\* what getConversations resolves with for the item stored and the
\* password pw held when it was called
getConversations(stored, pw) ==
    IF stored = NoItem THEN <<>>
    ELSE IF IsPlain(stored[1]) THEN JSONparse(stored[1])
    ELSE IF pw \in {NoPassword, <<"">>} \/ DecryptFails(stored[1], pw) THEN <<>>
    ELSE JSONparse(decrypt(stored[1], pw))

LoadConversationsResumes(i) ==
    /\ variant = "store"
    /\ i \in 1..Len(awaiting)
    /\ awaiting[i].op = "loadConversations"
    /\ LET stored == awaiting[i].data
           conversations == getConversations(stored, awaiting[i].pw)
           decrypted == /\ stored # NoItem
                        /\ ~IsPlain(stored[1])
                        /\ awaiting[i].pw \notin {NoPassword, <<"">>}
                        /\ ~DecryptFails(stored[1], awaiting[i].pw)
       IN  /\ storage' = IF decrypted THEN extendSession(storage) ELSE storage
           /\ store' = [store EXCEPT
                  !.conversations = conversations,
                  !.isLoading = FALSE,
                  !.activeConversationId =
                      IF Len(conversations) > 0 /\ @ \in {<<>>, <<"">>}
                      THEN <<conversations[1].id>> ELSE @]
    /\ awaiting' = Remove(awaiting, i)
    /\ UNCHANGED <<variant, localStorage, now, applied, returned>>
    /\ UNCHANGED askVars

StoreNext ==
    \/ \E mode \in Modes, id \in Ids : CreateConversation(mode, id)
    \/ \E id \in Ids : DeleteConversation(id)
    \/ \E id \in {<<>>} \cup {<<c>> : c \in Ids} : SetActiveConversation(id)
    \/ \E conversationId \in Ids, role \in Roles, messageId \in MessageIds :
          AddMessage(conversationId, role, messageId)
    \/ \E conversationId \in Ids, messageId \in MessageIds :
          UpdateMessage(conversationId, messageId)
    \/ LoadConversations
    \/ \E i \in 1..MaxSaves : LoadConversationsResumes(i)
    \/ \E i \in 1..MaxSaves : SaveConversationsResumes(i)
    \/ Lock

StoreSpec == StoreInit /\ [][StoreNext]_vars

\* ---- the mutations of the store on their own, on an unlocked storage,
\* with their saves completing in any order
SaveInit ==
    /\ variant = "saves"
    /\ applied = NotApplied
    /\ returned = NotReturned
    /\ apiKeys = {}
    /\ claudeCodeMode = FALSE
    /\ maxRoundsArg = <<>>
    /\ Fresh
    /\ now = 0
    /\ store = EmptyStore
    /\ awaiting = <<>>
    /\ storage = Unlocked
    /\ localStorage = [EmptyLocalStorage EXCEPT
           !.hivemind_password_hash = <<hashPassword("pw")>>]

SaveNext ==
    \/ \E id \in Ids : CreateConversation("solo", id)
    \/ \E id \in Ids : DeleteConversation(id)
    \/ \E conversationId \in Ids, messageId \in MessageIds :
          AddMessage(conversationId, "user", messageId)
    \/ \E conversationId \in Ids, messageId \in MessageIds :
          UpdateMessage(conversationId, messageId)
    \/ \E i \in 1..MaxRacing : SaveConversationsResumes(i)

SaveSpec == SaveInit /\ [][SaveNext]_vars

\* ================================================================ properties
Calls == {fcall[p] : p \in Providers} \cup {jcall}

AllRetryable(log) == \A i \in 1..Len(log) : categorizeError(log[i]).retryable

\* retryWithBackoff threw after failures that were all retryable
Exhausted(c) ==
    c.st = "rejected" /\ c.by = "retry" /\ Len(c.log) > 0 /\ AllRetryable(c.log)

Recorded(errs) == {errs[i].provider : i \in 1..Len(errs)}

\* C1: the round counter never exceeds maxRounds and a returned result has
\* rounds <= maxRounds, whatever maxRounds the caller passed.
C1_RoundWithinMaxRounds ==
    /\ round <= maxRounds
    /\ outcome.type = "result" => outcome.rounds <= maxRounds

\* the loop was left for one of the reasons the specification lists
StopReason ==
    \/ analysis.hasConsensus
    \/ analysis.confidence > HIGH_CONFIDENCE
    \/ Len(analysis.divergences) = 0
    \/ round >= (IF variant = "web" THEN WEB_MAX_ROUNDS ELSE maxRounds)

\* C2: when every chat call settles, the ask eventually returns or fails, and
\* the refinement loop is left only on consensus, high confidence, no
\* divergence, or round having reached maxRounds.
C2_AskEnds ==
    /\ <>(pc \in {"done", "error"})
    /\ [](pc \in {"synthesis", "done"} => StopReason)

C2_Witness ==
    /\ pc = "done"
    /\ outcome.rounds = 3
    /\ ~analysis.hasConsensus
    /\ Len(analysis.divergences) > 0

\* C3: a call that fails on every attempt with a retryable error is invoked
\* exactly 3 times, then its error is thrown, and the provider is recorded
\* as failed.
C3_RetryableFailureRecorded ==
    /\ [](\A c \in Calls : Exhausted(c) =>
            c.calls = 3 /\ c.reason = Last(c.log))
    /\ [][(JoinInitial \/ JoinRefinement) =>
            \A p \in Providers : Exhausted(fcall[p]) => p \in Recorded(errors')]_vars

\* C4: a call whose first attempt fails with a non-retryable error is invoked
\* once, waits for no backoff delay and rethrows that error at once.
C4_NonRetryableOnce ==
    \A c \in Calls :
        (Len(c.log) >= 1 /\ ~categorizeError(c.log[1]).retryable) =>
            /\ c.st = "rejected"
            /\ c.by = "retry"
            /\ c.calls = 1
            /\ c.delays = <<>>
            /\ c.reason = c.log[1]

C4_Witness ==
    \E p \in Providers :
        /\ fcall[p].st = "rejected"
        /\ fcall[p].log = << <<"401", "unauthorized">> >>

\* C5: when attempt k succeeds after k-1 retryable failures, retryWithBackoff
\* returns that attempt's value, fn was invoked exactly k times (k <= 3), and
\* no attempt follows the success.
C5_SuccessStopsRetry ==
    \A c \in Calls :
        c.okAt # 0 =>
            /\ Settled(c)
            /\ c.by # "retry"
            /\ c.calls = c.okAt
            /\ c.calls = Len(c.log) + 1
            /\ c.calls <= MAX_RETRIES
            /\ AllRetryable(c.log)
            /\ Len(c.delays) = c.okAt - 1

C5_Witness ==
    \E p \in Providers :
        /\ fcall[p].st = "fulfilled"
        /\ fcall[p].okAt = 3
        /\ Len(fcall[p].log) = 2

\* C6: when retryWithBackoff gives up, what it throws is the error of the
\* last attempt, unwrapped: the errors entry of the provider (round 1) and the
\* error the ask fails with (judge calls) carry that message and its category.
C6_LastErrorUnwrapped ==
    /\ [](\A c \in Calls :
            (c.st = "rejected" /\ c.by = "retry") => c.reason = Last(c.log))
    /\ []((jcall.st = "rejected" /\ jcall.by = "retry") =>
            outcome = Rethrown(Last(jcall.log)))
    /\ [][JoinInitial =>
            \A p \in Providers :
                (fcall[p].st = "rejected" /\ fcall[p].by = "retry") =>
                    \E i \in 1..Len(errors') :
                        errors'[i] =
                            [provider |-> p,
                             message |-> Last(fcall[p].log),
                             category |-> categorizeError(Last(fcall[p].log)).category]]_vars

C6_Witness ==
    /\ pc = "analysis"
    /\ \E i \in 1..Len(errors) :
          /\ errors[i].message = <<"429", "rate", "limit">>
          /\ errors[i].category = "rate_limit"

\* C7: when a provider succeeded in round 1 and another failed, the returned
\* result holds the successful responses and identifies every failed provider.
C7_FailedProvidersInResult ==
    (pc = "done" /\ \E i \in 1..Len(errors) : errors[i].message \in Messages) =>
        /\ \A i \in 1..Len(currentResponses) :
              \E j \in 1..Len(outcome.responses) :
                  outcome.responses[j].provider = currentResponses[i].provider
        /\ \A i \in 1..Len(errors) :
              /\ "errors" \in DOMAIN outcome
              /\ \E j \in 1..Len(outcome.errors) :
                    outcome.errors[j].provider = errors[i].provider

\* C8: when every provider fails in round 1, the ask fails with 'All
\* providers failed' and no analysis, refinement or synthesis call is issued.
C8_AllFailedStopsEarly ==
    (providers # <<>> /\ Len(errors) = Len(providers)) =>
        /\ pc = "error"
        /\ outcome.type = "error"
        /\ outcome.name = "All providers failed"
        /\ sent.analysis = 0
        /\ sent.refinement = 0
        /\ sent.synthesis = 0
        /\ jcall = NoCall

C8_Witness ==
    /\ pc = "error"
    /\ Len(providers) >= 2
    /\ Len(errors) = Len(providers)

\* the suggestion the claim attaches to a category
Suggestion(category) ==
    CASE category = "auth" -> "Verify API key"
      [] category = "rate_limit" -> "Wait and retry"
      [] category = "server" -> "Retry later"
      [] category = "network" -> "Check connectivity"
      [] category = "client" -> "Check model name/request"
      [] OTHER -> "Check API keys and network connectivity"

\* C9: the error of a total failure lists every failed provider with its
\* category and its message, and a suggestion for every category present.
C9_TotalFailureExplained ==
    (/\ pc = "error"
     /\ outcome.name = "All providers failed"
     /\ \A i \in 1..Len(errors) : errors[i].message \in Messages) =>
        \A i \in 1..Len(errors) :
            /\ \E j \in 1..Len(outcome.errorList) :
                  /\ outcome.errorList[j].provider = errors[i].provider
                  /\ outcome.errorList[j].message = errors[i].message
                  /\ "category" \in DOMAIN outcome.errorList[j]
                  /\ outcome.errorList[j].category = errors[i].category
            /\ "suggestions" \in DOMAIN outcome
            /\ Suggestion(errors[i].category) \in outcome.suggestions

\* C10: with exactly one provider configured and answering, the result has
\* rounds = 1, its consensus is that answer, and no analysis, refinement or
\* synthesis prompt is sent.
C10_SingleProviderShortcut ==
    (Len(providers) = 1 /\ pc = "done") =>
        /\ outcome.rounds = 1
        /\ outcome.consensus = allResponses[1].content
        /\ sent.analysis = 0
        /\ sent.refinement = 0
        /\ sent.synthesis = 0

\* C11: in every refinement round the "other answers" of the prompt built
\* for a re-queried provider X hold no response written by X and hold the
\* current response of every other provider.
C11_SelfExclusion ==
    pc = "refinement" =>
        \A x \in Providers :
            fcall[x].st # "none" =>
                LET others == prompts[x].otherAnswers
                IN  /\ \A i \in 1..Len(others) : others[i].content.by # x
                    /\ \A i \in 1..Len(currentResponses) :
                          currentResponses[i].provider # x =>
                              \E j \in 1..Len(others) :
                                  others[j].content = currentResponses[i].content

C11_Witness ==
    /\ pc = "refinement"
    /\ round = 3
    /\ Len(currentResponses) = 3
    /\ Len(prompts["google"].otherAnswers) = 2

\* C12: after an analysis with confidence above 0.8 no refinement round is
\* started (the latest analysis of a running refinement round never has a
\* confidence above the threshold).
C12_HighConfidenceStops ==
    pc = "refinement" => analysis.confidence <= HIGH_CONFIDENCE

\* C13: when the first analysis reports consensus, no refinement prompt is
\* sent, synthesis is requested exactly once and the result has rounds = 1.
C13_FirstConsensus ==
    (sent.analysis = 1 /\ analysis.hasConsensus) =>
        /\ sent.refinement = 0
        /\ sent.synthesis = 1
        /\ pc \in {"synthesis", "done", "error"}
        /\ round = 1
        /\ pc = "done" => outcome.rounds = 1

C13_Witness ==
    /\ pc = "done"
    /\ sent.analysis = 1
    /\ analysis.hasConsensus
    /\ Len(analysis.divergences) > 0
    /\ maxRounds = 3
    /\ outcome.rounds = 1

\* the rounds in which a refinement answer was collected
RefinementRounds(responses) ==
    {responses[i].round : i \in 1..Len(responses)} \ {1}

\* C14: with maxRounds = n >= 1, when no analysis ends the deliberation and
\* every round has an answer, there are n - 1 refinement rounds, each
\* sending one prompt to every provider that has a current response,
\* synthesis is requested once and the result has rounds = n.
C14_ExhaustsRounds ==
    /\ []((/\ pc = "done"
           /\ maxRounds >= 1
           /\ ~analysis.hasConsensus
           /\ Len(analysis.divergences) > 0
           /\ analysis.confidence <= HIGH_CONFIDENCE
           /\ sent.analysis = round) =>
               /\ outcome.rounds = maxRounds
               /\ Cardinality(RefinementRounds(outcome.responses)) = maxRounds - 1
               /\ sent.synthesis = 1)
    /\ [][(pc # "refinement" /\ pc' = "refinement") =>
            /\ \A p \in Providers :
                  IF p \in ResponseProviders(currentResponses)
                  THEN fcall'[p] = NewCall
                  ELSE fcall'[p] = NoCall
            /\ sent'.refinement =
                  sent.refinement + Cardinality(ResponseProviders(currentResponses))]_vars

C14_Witness ==
    /\ pc = "done"
    /\ maxRounds = 3
    /\ ~analysis.hasConsensus
    /\ Len(analysis.divergences) > 0
    /\ analysis.confidence <= HIGH_CONFIDENCE
    /\ sent.analysis = 3
    /\ outcome.rounds = 3
    /\ faults > 0

\* C15: a provider call that fails after its retries never fails the ask,
\* unless every provider of the round failed.
C15_CallFailureDemoted ==
    \A c \in {fcall[p] : p \in Providers} \cup {jcall} :
        (c.st = "rejected" /\ c.by = "retry" /\ pc = "error") =>
            outcome.name = "All providers failed"

\* C16: an analysis that cannot be parsed does not fail the ask: it counts
\* as no consensus with a divergence, refinement goes on while rounds
\* remain, then synthesis runs; a judge that never answers parsable JSON
\* yields a result with rounds = maxRounds.
C16_MalformedAnalysisTolerated ==
    /\ []((pc = "done" /\ analysis = ParseFailure) => outcome.rounds = maxRounds)
    /\ [][(/\ pc = "analysis"
            /\ pc' # "analysis"
            /\ analysis' = ParseFailure
            /\ jcall'.st # "rejected") =>
               IF round < maxRounds
               THEN pc' = "refinement" /\ round' = round + 1
               ELSE pc' = "synthesis" /\ round' = round]_vars

\* the default parseAnalysis gives a field that is missing or of the wrong
\* type, by the claim C17
FieldOrDefault(v, type, default) ==
    IF v.t # type THEN default
    ELSE CASE type = "bool" -> v.b
           [] type = "array" -> v.a
           [] OTHER -> v.n

\* C17: parseAnalysis returns the parse-failure verdict for every answer
\* without a parsable JSON object; for a JSON object it returns the given
\* value of every field of the right type and false, [], [] and 0.5 for a
\* field that is missing or of the wrong type.
C17_ParseDefaults ==
    (returned.fn = "parseAnalysis") =>
        IF applied.arg.kind # "json"
        THEN returned.value = ParseFailure
        ELSE returned.value =
               [hasConsensus |-> FieldOrDefault(applied.arg.hasConsensus, "bool", FALSE),
                agreements |-> FieldOrDefault(applied.arg.agreements, "array", <<>>),
                divergences |-> FieldOrDefault(applied.arg.divergences, "array", <<>>),
                confidence |-> FieldOrDefault(applied.arg.confidence, "number", 50)]

\* the messages that hold none of the words the classifier looks for
PlainMessage(m) == \A i \in 1..Len(m) : m[i] \in {"something", "odd", "getaddrinfo"}

\* C18: categorizeError gives every error one of the six categories,
\* retryable exactly for rate_limit, server and network; a message that
\* matches no pattern is unknown and is not retried.
C18_CategoriesTotal ==
    /\ (returned.fn = "categorizeError") =>
          /\ returned.value.category \in
                {"auth", "rate_limit", "server", "network", "client", "unknown"}
          /\ returned.value.retryable <=>
                returned.value.category \in {"rate_limit", "server", "network"}
          /\ PlainMessage(applied.arg) =>
                returned.value = [category |-> "unknown", retryable |-> FALSE]
    /\ (returned.fn = "retryWithBackoff" /\ PlainMessage(applied.arg)) =>
          /\ returned.value.st = "rejected"
          /\ returned.value.calls = 1
          /\ returned.value.reason = applied.arg

C18_Witness ==
    /\ returned.fn = "retryWithBackoff"
    /\ applied.arg = <<"something", "odd">>
    /\ returned.value.st = "rejected"

\* the messages of a transport failure: an error code of the socket layer,
\* alone or after the name of the failing system call, a timeout, or
\* "fetch failed"
TransportFailure(m) ==
    LET codes == {"econnrefused", "econnreset", "etimedout", "enetunreach",
                  "enotfound", "timeout"}
    IN  \/ Len(m) = 1 /\ m[1] \in codes
        \/ Len(m) = 2 /\ m[1] = "getaddrinfo" /\ m[2] \in codes
        \/ m = <<"fetch", "failed">>

\* C19: a transport failure is categorized network and retryable, and the
\* call that failed that way is retried.
C19_TransportRetried ==
    /\ (returned.fn = "categorizeError" /\ TransportFailure(applied.arg)) =>
          returned.value = [category |-> "network", retryable |-> TRUE]
    /\ (returned.fn = "retryWithBackoff" /\ TransportFailure(applied.arg)) =>
          /\ returned.value.st = "backoff"
          /\ returned.value.delays = <<BASE_DELAY_MS>>

\* C20: the responses an ask returns hold no two entries of the same
\* provider and round, and the current response set holds at most one
\* response per provider.
C20_OneResponsePerProviderAndRound ==
    /\ (pc = "done" /\ variant = "mcp") =>
          \A i, j \in 1..Len(outcome.responses) :
              (i # j /\ outcome.responses[i].provider = outcome.responses[j].provider)
                  => outcome.responses[i].round # outcome.responses[j].round
    /\ (pc = "done" /\ variant = "queries") =>
          \A i, j \in 1..Len(outcome.responses) :
              i # j => outcome.responses[i].provider # outcome.responses[j].provider
    /\ \A i, j \in 1..Len(currentResponses) :
          i # j => currentResponses[i].provider # currentResponses[j].provider

\* C21: in every round the analysis call is issued only once every provider
\* call of that round has settled, retries and backoff delays included:
\* the step that sends an analysis prompt starts in a state where no
\* provider call is pending or waiting for a backoff, and while the judge
\* analyses no provider call is open.
C21_AnalysisAfterAllSettled ==
    /\ [][sent'.analysis > sent.analysis =>
            /\ pc \in {"initial", "refinement"}
            /\ \A p \in Providers :
                   fcall[p].st \in {"none", "fulfilled", "rejected"}]_vars
    /\ [](pc = "analysis" => \A p \in Providers : fcall[p].st = "none")

\* the second analysis call was issued after a refinement round in which a
\* provider failed
C21_Witness ==
    /\ pc = "analysis"
    /\ round = 2
    /\ sent.analysis = 2
    /\ Len(currentResponses) = 1
    /\ Len(allResponses) = 3

\* the place of a provider in the configuration order
Pos(p) == CHOOSE i \in 1..Len(ProviderOrder) : ProviderOrder[i] = p

\* the entries of seq follow the configuration order of their providers
InConfigurationOrder(seq) ==
    \A i, j \in 1..Len(seq) : i < j => Pos(seq[i].provider) < Pos(seq[j].provider)

\* the entries added to allResponses by the step
Added == SubSeq(allResponses', Len(allResponses) + 1, Len(allResponses'))

\* C22: what a round contributes to the result depends on the outcome of
\* every provider's call and not on the order in which the calls settled:
\* when the calls of a round are joined, the collected responses are those
\* of exactly the fulfilled calls, the responses and the error records are
\* listed in configuration order, and the judge is the first provider in
\* configuration order that answered, whatever order the calls settled in.
C22_CompletionOrderIrrelevant ==
    [][(pc \in {"initial", "refinement"} /\ pc' \notin {"initial", "refinement"}) =>
        /\ ResponseProviders(Added) = Fulfilled
        /\ Len(Added) = Cardinality(Fulfilled)
        /\ InConfigurationOrder(Added)
        /\ InConfigurationOrder(currentResponses')
        /\ InConfigurationOrder(errors')
        /\ Fulfilled # {} =>
               /\ ResponseProviders(currentResponses') = Fulfilled
               /\ \A p \in Fulfilled : Pos(analyzerProvider') <= Pos(p)]_vars

\* google answered before openai, and the responses were collected with
\* openai first
C22_Witness ==
    /\ pc = "analysis"
    /\ completed = <<"google", "openai">>
    /\ Len(currentResponses) = 2
    /\ currentResponses[1].provider = "openai"
    /\ analyzerProvider = "openai"

\* the providers that answered in round 1
RoundOneResponders ==
    {allResponses[i].provider : i \in {k \in 1..Len(allResponses) : allResponses[k].round = 1}}

\* the first of them in configuration order
FirstResponder ==
    CHOOSE p \in RoundOneResponders : \A q \in RoundOneResponders : Pos(p) <= Pos(q)

\* the awaited call of the judge returned
JudgeAnswered ==
    /\ pc \in {"analysis", "synthesis"}
    /\ jcall.st = "pending"
    /\ \/ pc' \in {"refinement", "synthesis", "done"} /\ pc' # pc
       \/ pc' = "error" /\ outcome'.message = UsageWriteError

\* C23: within one ask every analysis call and the synthesis call go to one
\* judge, the first provider in configuration order that answered in round
\* 1: once chosen the judge never changes, it is that provider whenever a
\* judge call is open, every answered judge call is accounted to it, and
\* the consensus of the result is its text.
C23_OneJudge ==
    /\ [][(analyzerProvider \in Providers) =>
            analyzerProvider' = analyzerProvider]_vars
    /\ [](pc \in {"analysis", "refinement", "synthesis", "done"} =>
              analyzerProvider = FirstResponder)
    /\ [][JudgeAnswered =>
            sessionStats' = [sessionStats EXCEPT ![FirstResponder].requests = @ + 1]]_vars
    /\ [](pc = "done" => outcome.consensus.by = FirstResponder)

\* openai failed in round 1, google became the judge and failed in round 2:
\* the synthesis call still goes to google
C23_Witness ==
    /\ pc = "synthesis"
    /\ round = 2
    /\ analyzerProvider = "google"
    /\ providers = ProviderOrder
    /\ ResponseProviders(currentResponses) = {"anthropic"}

\* the chat call of provider p of the current round returned in this step
ProviderAnswered(p) ==
    /\ pc \in {"initial", "refinement"}
    /\ fcall[p].st = "pending"
    /\ fcall'[p].okAt # 0

\* the chat calls that returned in this step to a prompt sent to p
AnsweredNow(p) ==
    (IF ProviderAnswered(p) THEN 1 ELSE 0)
    + (IF JudgeAnswered /\ analyzerProvider = p THEN 1 ELSE 0)

\* C24: usage is reported once for every chat call that succeeds (initial
\* query, refinement, analysis or synthesis) and for nothing else: in every
\* step the request counter of a provider grows by the number of its chat
\* calls that returned in that step, so a rejected attempt, a backoff and a
\* call that gives up leave every counter as it is.
C24_UsageOncePerSuccess ==
    [][\A p \in Providers :
          sessionStats'[p].requests = sessionStats[p].requests + AnsweredNow(p)]_vars

\* a call that was rejected once, retried and answered is counted once
C24_Witness ==
    /\ pc = "initial"
    /\ fcall["openai"].st = "fulfilled"
    /\ fcall["openai"].calls = 2
    /\ Len(fcall["openai"].log) = 1
    /\ sessionStats["openai"].requests = 1

\* C25: while claudeCodeMode is enabled no request goes to the Anthropic
\* provider, also when an Anthropic key is configured: it is not among the
\* providers queried, it is not the judge and no usage is accounted to it;
\* with claudeCodeMode disabled and an Anthropic key configured the first
\* round of hivemindTool queries Anthropic.
C25_ClaudeCodeModeSkipsAnthropic ==
    /\ [](claudeCodeMode =>
              /\ "anthropic" \notin Range(providers)
              /\ analyzerProvider # "anthropic"
              /\ sessionStats["anthropic"].requests = 0
              /\ variant = "mcp" => fcall["anthropic"].st = "none")
    /\ [][(variant = "mcp" /\ pc = "idle" /\ ~claudeCodeMode
                /\ "anthropic" \in apiKeys) =>
            /\ pc' = "initial"
            /\ round' = 1
            /\ fcall'["anthropic"].st = "pending"
            /\ fcall'["anthropic"].calls = 1]_vars

\* a deliberation of two rounds completed with an Anthropic key configured
\* and claudeCodeMode enabled
C25_Witness ==
    /\ variant = "mcp"
    /\ pc = "done"
    /\ claudeCodeMode
    /\ "anthropic" \in apiKeys
    /\ round = 2
    /\ sessionStats["openai"].requests + sessionStats["google"].requests >= 5

\* C28: when every provider re-queried in a refinement round has failed,
\* the ask ends in the error state: the step that follows the settlement of
\* a refinement round without any fulfilled call leads to pc = "error".
C28_RefinementAllFailedIsError ==
    [][(variant = "mcp" /\ pc = "refinement" /\ AllSettled /\ Fulfilled = {}) =>
          pc' = "error"]_vars

\* C29: every call that fails for good in a refinement round yields an
\* error record with its provider, message and category, and the records
\* are handed to the caller with the result.
C29_RefinementFailuresSurfaced ==
    /\ [][(variant = "mcp" /\ pc = "refinement" /\ AllSettled) =>
            \A p \in Rejected : \E i \in 1..Len(errors') :
                /\ errors'[i].provider = p
                /\ errors'[i].message = fcall[p].reason
                /\ errors'[i].category = categorizeError(fcall[p].reason).category]_vars
    /\ [](pc = "done" /\ errors # <<>> =>
              "errors" \in DOMAIN outcome /\ outcome.errors = errors)

\* the number of rounds the running ask allows
RoundLimit == IF variant = "web" THEN WEB_MAX_ROUNDS ELSE maxRounds

\* C30: a refinement round is started only when the latest analysis reports
\* no consensus and at least one divergence and rounds remain; in
\* particular an analysis without divergences is followed by the synthesis
\* and by no further refinement round.
C30_RefinementNeedsDivergence ==
    [][(pc' = "refinement" /\ (pc # "refinement" \/ round' # round)) =>
          /\ ~analysis'.hasConsensus
          /\ Len(analysis'.divergences) > 0
          /\ round < RoundLimit]_vars

\* the step is a call of saveApiKeys or getApiKeys: the call is suspended
\* at its await, or it returned or threw before it
KeyCall ==
    \/ /\ Len(awaiting') > Len(awaiting)
       /\ Last(awaiting').op \in {"saveApiKeys", "getApiKeys"}
    \/ /\ awaiting' = awaiting
       /\ returned' # returned
       /\ returned'.fn \in {"saveApiKeys", "getApiKeys"}

\* C26: while the storage holds no password (null, or the empty string
\* that its guard treats alike), a call of saveApiKeys or getApiKeys throws
\* 'Storage is locked' and changes neither localStorage nor the fields of
\* the storage object, and nothing is left running.
C26_LockedStorageRefusesKeys ==
    [][(variant = "storage" /\ storage.password \in {NoPassword, <<"">>} /\ KeyCall) =>
          /\ returned' \in {Threw(fn, "Storage is locked") :
                               fn \in {"saveApiKeys", "getApiKeys"}}
          /\ localStorage' = localStorage
          /\ storage' = storage
          /\ awaiting' = awaiting]_vars

\* keys were saved, the storage was locked again and a save was refused
C26_Witness ==
    /\ variant = "storage"
    /\ returned = Threw("saveApiKeys", "Storage is locked")
    /\ storage.password = NoPassword
    /\ localStorage.hivemind_password_hash = <<hashPassword("pw")>>
    /\ localStorage.hivemind_api_keys = <<encrypt(JSONstringify("keys2"), <<"pw">>)>>

\* the active id is null or the id of a conversation of the store
ActiveValid(st) ==
    \/ st.activeConversationId = <<>>
    \/ \E i \in 1..Len(st.conversations) :
          st.activeConversationId = <<st.conversations[i].id>>

\* a call of fn starts in this step (only the calls of the store set applied)
StoreCall(fn) == variant = "store" /\ applied' # applied /\ applied'.fn = fn

\* C27: deleteConversation(id) removes the conversations of that id and no
\* other, keeping the order of the rest; when the deleted one was active the
\* first remaining conversation becomes active, or none when none remains;
\* otherwise the active id stays.  Hence createConversation and
\* deleteConversation keep the active id null or the id of a conversation of
\* the store, which it is before the first call.
C27_DeleteConversation ==
    /\ [][StoreCall("deleteConversation") =>
            /\ store'.conversations =
                   SelectSeq(store.conversations, LAMBDA c : c.id # applied'.arg)
            /\ store'.activeConversationId =
                   IF store.activeConversationId # <<applied'.arg>>
                   THEN store.activeConversationId
                   ELSE IF store'.conversations = <<>> THEN <<>>
                   ELSE <<store'.conversations[1].id>>]_vars
    /\ [][((StoreCall("deleteConversation") \/ StoreCall("createConversation"))
              /\ ActiveValid(store)) => ActiveValid(store')]_vars
    /\ []((variant = "store" /\ applied = NotApplied) => ActiveValid(store))

\* a conversation was deleted; the one that remains is active and saved
C27_Witness ==
    /\ variant = "store"
    /\ applied.fn = "deleteConversation"
    /\ Len(store.conversations) = 1
    /\ store.conversations[1].id # applied.arg
    /\ store.activeConversationId = <<store.conversations[1].id>>
    /\ store.conversations[1].mode = "hivemind"
    /\ localStorage.hivemind_conversations = <<JSONstringify(store.conversations)>>

\* The first balanced {...} substring of a text (<<>> when there is none):
\* from the first "{" to the first "}" that closes as many braces as were
\* opened since.
FirstBalanced(response) ==
    LET opens == Positions(response, "{")
        closes == {j \in Positions(response, "}") :
                     /\ opens # {}
                     /\ j > Min(opens)
                     /\ Cardinality({k \in opens : k < j})
                          = Cardinality({k \in Positions(response, "}") :
                                           Min(opens) < k /\ k <= j})}
    IN  IF closes = {} THEN <<>>
        ELSE <<SubSeq(response, Min(opens), Min(closes))>>

\* One verdict object with other text around it.
OneVerdict(response) ==
    /\ Cardinality(Positions(response, "v1") \cup Positions(response, "v2")) = 1
    /\ FirstBalanced(response) \in {<<<<"{", "v1", "}">>>>, <<<<"{", "v2", "}">>>>}

\* C31: parseAnalysis tolerates surrounding text.  Called on a text that
\* holds one verdict object with any other text before and after it, it
\* returns the coerced fields of that object: what it parses is the first
\* balanced {...} substring of the text.
C31_SurroundingTextTolerated ==
    (/\ variant = "unit"
     /\ returned.fn = "parseAnalysisText"
     /\ OneVerdict(applied.arg))
    => returned.value = parseAnalysis(JSONparseObject(FirstBalanced(applied.arg)[1]))

\* C32: every ConsensusAnalysis that parseAnalysis produces has its
\* confidence within [0, 1] (0..100 in hundredths), whatever number the
\* JSON of the judge holds.
C32_ConfidenceInUnitInterval ==
    (variant = "unit" /\ returned.fn \in {"parseAnalysis", "parseAnalysisText"})
    => (returned.value.confidence >= 0 /\ returned.value.confidence <= 100)

\* C33: no usage update is lost.  Every chat call that returned reports
\* its usage, and each report adds one request to the session total and one
\* to the monthly total of its provider, however the calls of a round
\* interleave: in every step both totals of a provider grow by the number of
\* its calls that returned in that step, so that once all calls have
\* finished both totals equal the number of reported calls.
C33_NoUsageUpdateLost ==
    [][\A p \in Providers :
          /\ sessionStats'[p].requests = sessionStats[p].requests + AnsweredNow(p)
          /\ usageFile'[p].requests = usageFile[p].requests + AnsweredNow(p)]_vars

\* the call suspended at position i resumes in this step: it leaves the
\* pending calls, or goes on to its next await
Resumes(i, op) ==
    /\ i \in 1..Len(awaiting)
    /\ awaiting[i].op = op
    /\ \/ awaiting' = Remove(awaiting, i)
       \/ /\ Len(awaiting') = Len(awaiting)
          /\ awaiting'[i] # awaiting[i]
          /\ \A j \in 1..Len(awaiting) : j # i => awaiting'[j] = awaiting[j]

\* the session of the storage has expired
Expired == now >= storage.sessionExpiry

\* C34: the lock state follows the last of setPassword, unlock, lock and
\* clearAll that changed it (session expiry aside).  lock and clearAll always
\* leave the storage locked; setPassword and an unlock whose password
\* verifies against the stored hash leave it unlocked; an unlock without a
\* stored hash, or whose password does not verify, returns false and leaves
\* the lock state as it was; and nothing else unlocks the storage or locks
\* it before its session expires.
C34_LockStateFollowsLastOperation ==
    [][variant = "storage" =>
        /\ (Lock \/ ClearAll) => storage'.password = NoPassword
        /\ \A i \in 1..Len(awaiting) :
              /\ Resumes(i, "setPassword") => storage'.password = awaiting[i].pw
              /\ (Resumes(i, "unlock")
                    /\ verifyPasswordHash(awaiting[i].pw[1], awaiting[i].data))
                 => storage'.password = awaiting[i].pw
              /\ (Resumes(i, "unlock")
                    /\ ~verifyPasswordHash(awaiting[i].pw[1], awaiting[i].data))
                 => (returned' = Returned("unlock", FALSE) /\ storage' = storage)
        /\ ((\E password \in Passwords : Unlock(password))
              /\ localStorage.hivemind_password_hash = NoItem)
           => (returned' = Returned("unlock", FALSE) /\ storage' = storage)
        /\ (storage'.password # storage.password /\ storage'.password # NoPassword)
           => \E i \in 1..Len(awaiting) :
                 \/ Resumes(i, "setPassword")
                 \/ /\ Resumes(i, "unlock")
                    /\ verifyPasswordHash(awaiting[i].pw[1], awaiting[i].data)
        /\ (storage.password # NoPassword /\ storage'.password = NoPassword)
           => (Lock \/ ClearAll \/ Expired)]_vars

\* an unlock with a wrong password while the storage is unlocked: false is
\* returned and the storage stays unlocked with the password it had
C34_Witness ==
    /\ variant = "storage"
    /\ returned = Returned("unlock", FALSE)
    /\ storage.password = <<"pw">>
    /\ localStorage.hivemind_password_hash = <<hashPassword("pw")>>
    /\ now > 0

\* C35: once the expiry time of the session has passed, every later call
\* finds the storage locked until a password is given again: isUnlocked
\* returns false, saveApiKeys and getApiKeys throw 'Storage is locked', and
\* only setPassword or a verified unlock opens a session again.  Before the
\* expiry, a saveApiKeys or getApiKeys that succeeds moves the expiry to
\* SESSION_DURATION after it.
C35_ExpiredSessionStaysLocked ==
    [][variant = "storage" =>
        /\ (storage.password # NoPassword /\ Expired) =>
              /\ IsUnlocked => returned' = Returned("isUnlocked", FALSE)
              /\ KeyCall => returned' \in {Threw(fn, "Storage is locked") :
                                             fn \in {"saveApiKeys", "getApiKeys"}}
              /\ (storage'.password # NoPassword /\ now' < storage'.sessionExpiry)
                 => \E i \in 1..Len(awaiting) :
                       \/ Resumes(i, "setPassword")
                       \/ Resumes(i, "unlock")
        /\ (HoldsPassword(storage) /\ ~Expired) =>
              \A i \in 1..Len(awaiting) :
                 (/\ Resumes(i, "saveApiKeys") \/ Resumes(i, "getApiKeys")
                  /\ returned' # Returned("getApiKeys", "null"))
                 => storage'.sessionExpiry = now + SESSION_DURATION]_vars

\* the latest answers of provider x: the contents of its current responses
LatestAnswers(x) ==
    {currentResponses[i].content :
        i \in {j \in 1..Len(currentResponses) : currentResponses[j].provider = x}}

\* C36: in every refinement round the previous answer of the prompt built
\* for a provider is that provider's own latest answer, the one it gave in
\* the round before, and never an older one.
C36_PreviousAnswerIsLatest ==
    pc = "refinement" =>
        \A x \in Providers :
            fcall[x].st # "none" => prompts[x].previousAnswer \in LatestAnswers(x)

\* C37: the providers queried in a refinement round are among those that
\* answered in the round before.  When the calls of a round are joined, a
\* provider whose call was rejected is queried in no later round, and the
\* answer it gave earlier is neither among the responses that later prompts
\* and the synthesis are built from nor in a refinement prompt.
C37_FailedProviderLeaves ==
    [][(variant = "mcp" /\ pc \in {"initial", "refinement"} /\ AllSettled) =>
          \A p \in Rejected :
              /\ p \notin ResponseProviders(currentResponses')
              /\ fcall'[p].st = "none"
              /\ \A x \in Providers :
                    \A i \in 1..Len(prompts'[x].otherAnswers) :
                        prompts'[x].otherAnswers[i].content.by # p]_vars

C39_UsageFailureTolerated ==
    [][\A p \in Providers :
          (variant = "mcp" /\ ProviderAnswered(p)) =>
              /\ fcall'[p].st = "fulfilled"
              /\ (usageFile'[p].requests = usageFile[p].requests
                    => sessionStats'[p].requests = sessionStats[p].requests)]_vars

\* the conversations that the item kept in localStorage holds
Persisted ==
    LET item == localStorage.hivemind_conversations
    IN  IF item = NoItem THEN <<>>
        ELSE IF IsPlain(item[1]) THEN JSONparse(item[1])
        ELSE JSONparse(decrypt(item[1], item[1].key))

\* C40: after any sequence of createConversation, addMessage, updateMessage
\* and deleteConversation, once no save is pending any more, the
\* conversations kept in localStorage are the conversations of the store,
\* in whatever order the saves completed.
C40_PersistedEqualsStore ==
    (variant = "saves" /\ applied # NotApplied /\ awaiting = <<>>)
    => Persisted = store.conversations

====
